---- MODULE Spec2Model ----
(***************************************************************************)
(* Streaming transcription session manager of BetterOMIApp:                *)
(* backend/services/deepgramService.js.  The per-session Maps of the       *)
(* service are the variables; every exported function, timer callback and  *)
(* socket event handler is one action.  Handlers are written as operators  *)
(* from a state record to a state record so that a handler that calls      *)
(* another (processAudio -> handleConnectionFailure, the auto-close        *)
(* callback -> closeConnection, ...) is modelled whole.                    *)
(***************************************************************************)
EXTENDS Integers, Sequences, FiniteSets, TLC

\* ------------------------------------------------------------------ bounds
MaxOrphans == 1      \* sockets of a session still alive after being replaced
MaxStatus == 3       \* status objects that are referenced at one time
MaxTasks == 2        \* async calls (processAudio, handleConnectionFailure) in flight
MaxOver == 1         \* entries counted on a status object beyond the budget
MaxFaults == 2       \* connection faults in one run of SpecConn, SpecIdle, SpecAudio
SerialTasks == 1     \* async calls in flight in SpecBudget and SpecAcc
SerialFlush == 1     \* flushes in flight in SpecBudget
MaxRetry == 1        \* pending setTimeout(handleConnectionFailure, 1000) per session
MaxTimerIds == 2     \* timers of one session and purpose pending at one time
MaxFlush == 2        \* processBufferedTranscription calls in flight
MaxBuffer == 4       \* tokens in a buffer that still accepts a fragment (unlogged runs)
MaxFrags == 2        \* final fragments delivered in one logged run
MaxStored == 3       \* texts stored downstream in one run
MaxPayloads == 3     \* audio payloads received in a numbered run
PairFaults == 1      \* connection faults in one run of two sessions
BackoffShift == 10   \* delays are counted in units of 2^-BackoffShift ms

\* ------------------------------------------------------- program constants
MAX_RECONNECT_ATTEMPTS == 10

\* Audio server: at most this many packets accepted by one client, calls of
\* flushSegment and of processBufferedTranscriptions in flight, and texts
\* handed to createTranscription.
MaxPackets == 3
MaxSegs == 1
MaxSegsRacing == 2
\* Fragments accepted into the duplicate window.
MaxOffered == 13
MaxProcs == 2
MaxCreated == 2
\* Time in the audio server advances in ticks of TickMs; a quiet period is
\* followed for MaxQuiet ticks.
TickMs == 600000
\* The text stream route: fragments in a buffer, handlers waiting for the
\* analysis, timeouts pending without a record.
MaxStreamFrags == 2
MaxStreamRuns == 2
MaxStray == 2
MaxSockets == 2       \* WebSocket objects of the mobile streamer alive at one time
MaxStarts == 2        \* startStreaming calls awaiting NetInfo.fetch at one time
MaxFlushPackets == 1  \* packets of the audio-server client in SpecFlush
MaxStrLen == 3        \* characters per string given to calculateSimilarity
MaxQuiet == 3

SAMPLE_RATE == 16000
SAMPLE_WIDTH == 2
TARGET_SAMPLES == SAMPLE_RATE * 5
maxRecentTranscripts == 10
SILENCE_DURATION == 20 * 60 * 1000
SilenceTicks == SILENCE_DURATION \div TickMs

\* Byte lengths of the PCM a packet decodes to (2 s and 5 s of audio), and the
\* transcripts the provider returns for a segment (characters in sequence).
PcmLengths == {64000, 160000}
Transcripts == {<<"a", "b">>, <<"A", "b">>, <<"c">>}

Sessions == {"A", "B"}
Speakers == {"0", "1"}
NoSpeaker == "null"
Words == {<<"a">>, <<"b">>}
StreamTexts == {"a", "b"}
\* Transcripts of one word each, pairwise dissimilar; "A" differs from the
\* first of them by case only.
FreshWords == <<"a", "d", "e", "f", "g", "h", "i", "j", "k", "l", "m", "n">>
FreshTranscripts == [k \in 1..Len(FreshWords) |-> <<FreshWords[k]>>]

\* Characters of the strings compared by utils/textUtils.js, and the strings.
Chars == {"a", "A", "b"}
Strings == UNION {[1..n -> Chars] : n \in 0..MaxStrLen}

StatusIds == 1..MaxStatus
SocketIds == 1..MaxSockets

VARIABLES
  activeConnections,     \* sessionId -> readyState of the registered socket ("none": no entry)
  connectionStatus,      \* sessionId -> status object (0: no entry)
  statusOrder,           \* the sessions that have a connectionStatus entry, in the
                         \* order in which their entries were inserted (the order in
                         \* which the Map is iterated)
  statusObjs,            \* the status objects: readyState, reconnectAttempts, stale
  orphans,               \* sessionId -> replaced sockets that are still open / closing;
                         \* graceful: those of the closing ones that closeConnection or
                         \* cleanupSession closed with a close frame
  tasks,                 \* async calls suspended at an await; n: the attempt number of a
                         \* handleConnectionFailure call, the call slot of a processAudio
  retryTimers,           \* sessionId -> pending setTimeout(handleConnectionFailure)
  keepAliveIntervals,    \* sessionId -> the interval recorded (0: no entry)
  heartbeatIntervals,    \* sessionId -> the interval recorded (0: no entry)
  autoCloseTimeouts,     \* sessionId -> the timeout recorded (0: no entry)
  healthCheckInterval,   \* the shared health sweep is running
  transcriptionBuffers,  \* sessionId -> buffered text (<<>>: no entry)
  currentSpeakers,       \* sessionId -> last speaker ("null": no entry)
  flushes,               \* processBufferedTranscription calls awaiting downstream
  stored,                \* texts handed to storeTranscription that were stored
  accepted,              \* final fragments given to bufferTranscription, in order
  ended,                 \* sessionId -> how the session was last ended, until the next
                         \* processAudio call: "no", "closed" (closeConnection,
                         \* cleanupSession) or "exceeded" (reconnect budget)
  faults,                \* connection faults the environment has injected (when counted)
  payloads,              \* audio payloads: how many processAudio has received (numbered
                         \* runs only) and, per session, the latest one forwarded on an
                         \* OPEN socket
  client,                \* one ClientState of the audio server (its fields, its calls in flight)
  audioSinceArm,         \* sessionId -> since the pending auto-close timeout was armed, a
                         \* processAudio call has started that did not re-arm it (yet)
  stream,                \* one session of the text stream route: buffer (streamBuffers
                         \* entry, <<>>: none), timeout (the timer recorded in
                         \* streamTimeouts: "none", "pending", or "fired" while its
                         \* callback runs), stray (timeouts pending without a record),
                         \* runs (callbacks and process-now handlers awaiting the analysis)
  timerLog,              \* pending: the timers of setInterval and setTimeout that have
                         \* been neither cleared nor (a timeout) fired, each with its
                         \* session, purpose and id, and whether the socket an interval
                         \* was set up for has left activeConnections (orphan);
                         \* superseded: the timers (sessionId, purpose) the last step
                         \* replaced while they were recorded
  failures,              \* sessionId -> entries of handleConnectionFailure since the
                         \* session last connected (counting runs only)
  sweepDue,              \* sessionId -> the health sweep was running when the pending
                         \* auto-close timeout was armed and has not ticked since
                         \* (timed runs only)
  streamer,              \* the useAudioStreamer hook of the mobile app: its React state
                         \* (isStreaming, isConnecting, error set or null), websocketRef
                         \* (0: null), its WebSocket objects, the startStreaming calls
                         \* awaiting NetInfo.fetch, and stopped: stopStreaming has been
                         \* called and startStreaming has not been called since
  ev,                    \* what the last step did (observation only)
  snd                    \* the ws.send of an audio payload in the last step, if any

vars == <<activeConnections, connectionStatus, statusOrder, statusObjs, orphans, tasks,
          retryTimers, keepAliveIntervals, heartbeatIntervals, autoCloseTimeouts,
          healthCheckInterval, transcriptionBuffers, currentSpeakers, flushes,
          stored, accepted, ended, faults, audioSinceArm, payloads,
          client, stream, timerLog, sweepDue, failures, streamer, ev, snd>>

FreeStatus == [readyState |-> "CLOSED", reconnectAttempts |-> 0, stale |-> FALSE, used |-> FALSE]
NoEv == [op |-> "none"]
NoSend == [kind |-> "none"]
TimerKinds == {"keepAlive", "heartbeat", "autoClose"}

\* The state as one record, so that handlers compose.
\* new ClientState(ws, clientId).  segs and procs are the calls of flushSegment
\* and processBufferedTranscriptions that are waiting at an await; created is
\* the texts handed to transcriptionService.createTranscription.  timerAge is
\* the time since processingTimeout was set, sinceFinal the time since the last
\* fragment entered a buffer that is still non-empty, flushedSince whether
\* processBufferedTranscriptions has taken the buffer since then, closed
\* whether the client's socket has closed.  A segs entry with close = TRUE is
\* the flushSegment call the close handler awaits.
NewClientState ==
  [pcmFrames |-> 0, saveFrames |-> 0, sampleCount |-> 0, segmentIndex |-> 0,
   transcriptionBuffer |-> <<>>, lastTranscriptionAdded |-> <<>>,
   recentTranscripts |-> <<>>, processingTimeout |-> "null",
   segs |-> <<>>, procs |-> <<>>, created |-> <<>>,
   timerAge |-> 0, sinceFinal |-> 0, flushedSince |-> FALSE, closed |-> FALSE]

Cur ==
  [activeConnections |-> activeConnections, connectionStatus |-> connectionStatus,
   statusOrder |-> statusOrder,
   statusObjs |-> statusObjs, orphans |-> orphans, tasks |-> tasks,
   retryTimers |-> retryTimers, keepAliveIntervals |-> keepAliveIntervals,
   heartbeatIntervals |-> heartbeatIntervals, autoCloseTimeouts |-> autoCloseTimeouts,
   healthCheckInterval |-> healthCheckInterval,
   transcriptionBuffers |-> transcriptionBuffers, currentSpeakers |-> currentSpeakers,
   flushes |-> flushes, stored |-> stored, accepted |-> accepted, ended |-> ended,
   audioSinceArm |-> audioSinceArm, client |-> client, payloads |-> payloads,
   timerLog |-> [timerLog EXCEPT !.superseded = {}], stream |-> stream,
   sweepDue |-> sweepDue, failures |-> failures, streamer |-> streamer,
   ev |-> NoEv, snd |-> NoSend, ok |-> TRUE, log |-> FALSE, numbered |-> FALSE,
   timed |-> FALSE, count |-> FALSE]

Init ==
  /\ activeConnections = [id \in Sessions |-> "none"]
  /\ connectionStatus = [id \in Sessions |-> 0]
  /\ statusOrder = <<>>
  /\ statusObjs = [o \in StatusIds |-> FreeStatus]
  /\ orphans = [id \in Sessions |-> [open |-> 0, closing |-> 0, graceful |-> 0]]
  /\ tasks = {}
  /\ retryTimers = [id \in Sessions |-> 0]
  /\ keepAliveIntervals = [id \in Sessions |-> 0]
  /\ heartbeatIntervals = [id \in Sessions |-> 0]
  /\ autoCloseTimeouts = [id \in Sessions |-> 0]
  /\ healthCheckInterval = FALSE
  /\ transcriptionBuffers = [id \in Sessions |-> <<>>]
  /\ currentSpeakers = [id \in Sessions |-> NoSpeaker]
  /\ flushes = <<>>
  /\ stored = <<>>
  /\ accepted = <<>>
  /\ ended = [id \in Sessions |-> "no"]
  /\ faults = 0
  /\ audioSinceArm = [id \in Sessions |-> FALSE]
  /\ client = NewClientState
  /\ payloads = [received |-> 0, forwarded |-> [id \in Sessions |-> 0]]
  /\ stream = [buffer |-> <<>>, timeout |-> "none", stray |-> 0, runs |-> <<>>]
  /\ timerLog = [pending |-> {}, superseded |-> {}]
  /\ sweepDue = [id \in Sessions |-> FALSE]
  /\ failures = [id \in Sessions |-> 0]
  /\ streamer = [isStreaming |-> FALSE, isConnecting |-> FALSE, error |-> FALSE,
                  websocketRef |-> 0, ws |-> [i \in SocketIds |-> "none"],
                  starts |-> 0, stopped |-> FALSE]
  /\ ev = NoEv
  /\ snd = NoSend

\* ------------------------------------------------------------ small helpers
Min(S) == CHOOSE x \in S : \A y \in S : x <= y

RemoveAt(q, i) == [j \in 1..(Len(q) - 1) |-> IF j < i THEN q[j] ELSE q[j + 1]]

\* An object literal { readyState, reconnectAttempts, lastActive: Date.now() }.
FreeStatuses(s) == {o \in StatusIds : ~s.statusObjs[o].used}
NewStatus(s) == IF FreeStatuses(s) = {} THEN 0 ELSE Min(FreeStatuses(s))

\* ws.terminate() on the registered socket: an OPEN socket is destroyed and its
\* close event follows; a socket that is closing or closed is left as it is.
Terminate(s, id) ==
  IF s.activeConnections[id] = "open" THEN [s EXCEPT !.activeConnections[id] = "closing"] ELSE s

\* ws.close(code, reason) on the registered OPEN socket: close frame sent, the
\* close event follows.
CloseFrame(s, id) == [s EXCEPT !.activeConnections[id] = "closing"]

\* activeConnections.delete(sessionId): the socket lives on unregistered until
\* its close event.
Unregister(s, id) ==
  LET st == s.activeConnections[id]
      s1 == [s EXCEPT !.activeConnections[id] = "none",
                      !.timerLog.pending =
                         {IF t.sid = id /\ t.kind # "autoClose" /\ st # "none"
                          THEN [t EXCEPT !.orphan = TRUE] ELSE t : t \in @}]
  IN IF st = "open" THEN [s1 EXCEPT !.orphans[id].open = @ + 1]
     ELSE IF st = "closing" THEN [s1 EXCEPT !.orphans[id].closing = @ + 1]
     ELSE s1

\* activeConnections.set(sessionId, ws) with a socket that has just opened.
Register(s, id) == [Unregister(s, id) EXCEPT !.activeConnections[id] = "open"]

\* ------------------------------------------------------------------ timers
\* The timers of one session and purpose that are pending.
Pending(s, id, kind) == {t \in s.timerLog.pending : t.sid = id /\ t.kind = kind}

\* map.get(sessionId) of the map of a purpose (0: map.has(sessionId) is false).
Recorded(s, id, kind) ==
  IF kind = "keepAlive" THEN s.keepAliveIntervals[id]
  ELSE IF kind = "heartbeat" THEN s.heartbeatIntervals[id]
  ELSE s.autoCloseTimeouts[id]

\* map.set(sessionId, n); n = 0: map.delete(sessionId).
Record(s, id, kind, n) ==
  IF kind = "keepAlive" THEN [s EXCEPT !.keepAliveIntervals[id] = n]
  ELSE IF kind = "heartbeat" THEN [s EXCEPT !.heartbeatIntervals[id] = n]
  ELSE [s EXCEPT !.autoCloseTimeouts[id] = n, !.audioSinceArm[id] = FALSE,
                 !.sweepDue[id] = FALSE]

\* clearInterval(n) / clearTimeout(n): that timer is pending no longer.
ClearTimer(s, id, kind, n) ==
  [s EXCEPT !.timerLog.pending = {t \in @ : ~(t.sid = id /\ t.kind = kind /\ t.id = n)}]

\* if (map.has(sessionId)) clearX(map.get(sessionId))
ClearRecorded(s, id, kind) ==
  IF Recorded(s, id, kind) # 0 THEN ClearTimer(s, id, kind, Recorded(s, id, kind)) ELSE s

\* if (map.has(sessionId)) { clearX(map.get(sessionId)); map.delete(sessionId) }
DeleteTimer(s, id, kind) == Record(ClearRecorded(s, id, kind), id, kind, 0)

\* setInterval / setTimeout returns a timer that is none of the pending ones.
NewTimer(s, id, kind) ==
  LET free == (1..MaxTimerIds) \ {t.id : t \in Pending(s, id, kind)}
  IN IF free = {} THEN 0 ELSE Min(free)

\* The recorded timer, if any, is cleared; a new one is created and recorded.
SetTimerUncleared(s, id, kind) ==
  LET n == NewTimer(s, id, kind)
  IN IF n = 0 THEN [s EXCEPT !.ok = FALSE]
     ELSE [Record(s, id, kind, n) EXCEPT
             !.timerLog.pending = @ \cup {[sid |-> id, kind |-> kind, id |-> n,
                                            orphan |-> FALSE]},
             !.timerLog.superseded =
                IF Recorded(s, id, kind) # 0 THEN @ \cup {<<id, kind>>} ELSE @]

SetTimer(s, id, kind) ==
  LET s1 == ClearRecorded(s, id, kind)
      n == NewTimer(s1, id, kind)
  IN IF n = 0 THEN [s EXCEPT !.ok = FALSE]
     ELSE [Record(s1, id, kind, n) EXCEPT
             !.timerLog.pending = @ \cup {[sid |-> id, kind |-> kind, id |-> n,
                                            orphan |-> FALSE]},
             !.timerLog.superseded =
                IF Recorded(s, id, kind) # 0 THEN @ \cup {<<id, kind>>} ELSE @]

\* The timeout is armed anew; what was waiting before has at most 10 s (a
\* backoff, a connect) or 15 s (the tick of a running health sweep) to go.
resetAutoCloseTimeout(s, id) ==
  [SetTimer(s, id, "autoClose")
     EXCEPT !.sweepDue[id] = s.timed /\ s.healthCheckInterval,
            !.tasks = {[t EXCEPT !.old = @ \/ t.sid = id] : t \in s.tasks}]

setupHeartbeat(s, id) == SetTimer(s, id, "heartbeat")

setupKeepAlive(s, id) == setupHeartbeat(SetTimer(s, id, "keepAlive"), id)

\* The three clear-and-delete blocks of closeConnection (273-288),
\* handleConnectionFailure (331-344, 362-375) and cleanupSession (773-788).
ClearAllTimers(s, id) ==
  [s EXCEPT !.keepAliveIntervals = [x \in Sessions |-> 0],
            !.heartbeatIntervals = [x \in Sessions |-> 0],
            !.autoCloseTimeouts = [x \in Sessions |-> 0],
            !.audioSinceArm = [x \in Sessions |-> FALSE],
            !.sweepDue = [x \in Sessions |-> FALSE],
            !.timerLog.pending = {}]

ClearTimers(s, id) ==
  DeleteTimer(DeleteTimer(DeleteTimer(s, id, "keepAlive"), id, "heartbeat"), id, "autoClose")

\* startHealthCheck(): the sweep is started unless it is running.  Its first
\* tick, 15 s later, precedes the expiry of a timeout armed in the same handler.
startHealthCheck(s) == [s EXCEPT !.healthCheckInterval = TRUE]

SweepAhead(s, id) ==
  [s EXCEPT !.sweepDue[id] = s.timed /\ s.autoCloseTimeouts[id] # 0]

\* ------------------------------------------------------------- accumulator
SpeakerLabel(speaker) == <<"Speaker ", speaker, ": ">>
TurnBreak == <<"\n\n">>
Space == <<" ">>

\* processBufferedTranscription up to its first await: nothing happens for an
\* absent buffer; otherwise the buffer text is captured and storeTranscription
\* is awaited.  cont is the processAudio payload that waits for this call
\* through handleConnectionFailure (0: nobody waits).
\* if (!buffer || buffer.trim() === '')
NeverBlank(buffer) == FALSE

IsBlank(buffer) == \A i \in 1..Len(buffer) : buffer[i] \in {" ", "\n\n"}

processBufferedTranscription(s, id, cont) ==
  IF IsBlank(s.transcriptionBuffers[id]) THEN s
  ELSE IF Len(s.flushes) >= MaxFlush THEN [s EXCEPT !.ok = FALSE]
  ELSE [s EXCEPT !.flushes = Append(@, [sid |-> id, text |-> s.transcriptionBuffers[id],
                                          pc |-> "store", cont |-> cont])]

\* const isNewSpeaker = (speaker !== null && currentSpeaker !== speaker && !isFirstEntry)
\* The reconnect attempts counted on the session's status entry.
Counted(s, id) ==
  IF s.connectionStatus[id] = 0 THEN 0
  ELSE s.statusObjs[s.connectionStatus[id]].reconnectAttempts

IsNewSpeakerAlways(speaker, currentSpeaker, isFirstEntry) ==
  speaker # NoSpeaker /\ currentSpeaker # speaker

IsNewSpeaker(speaker, currentSpeaker, isFirstEntry) ==
  speaker # NoSpeaker /\ currentSpeaker # speaker /\ ~isFirstEntry

bufferTranscription(s, id, text, speaker) ==
  LET buffer == s.transcriptionBuffers[id]
      isFirstEntry == buffer = <<>>
      currentSpeaker == s.currentSpeakers[id]
      isNewSpeaker == IsNewSpeaker(speaker, currentSpeaker, isFirstEntry)
      b1 == IF isNewSpeaker THEN buffer \o TurnBreak
            ELSE IF ~isFirstEntry THEN buffer \o Space ELSE buffer
      b2 == IF speaker # NoSpeaker /\ (isNewSpeaker \/ isFirstEntry)
            THEN b1 \o SpeakerLabel(speaker) ELSE b1
      b3 == b2 \o text
      s1 == [s EXCEPT !.transcriptionBuffers[id] = b3,
                      !.currentSpeakers[id] = IF speaker # NoSpeaker THEN speaker ELSE @,
                      !.accepted = IF s.log
                                   THEN Append(@, [text |-> text, speaker |-> speaker,
                                                   att |-> Counted(s, id)])
                                   ELSE @]
  IN processBufferedTranscription(s1, id, 0)

\* -------------------------------------------------------------- connection
closeConnection(s, id) ==
  LET s1 == ClearTimers(s, id)
      ws == s1.activeConnections[id]
      s9 == [s1 EXCEPT !.ended[id] = "closed"]
  IN IF ws = "none" THEN s9
     ELSE LET s2 == IF ws = "open" THEN CloseFrame(s9, id) ELSE Terminate(s9, id)
          IN [Unregister(s2, id) EXCEPT !.connectionStatus[id] = 0,
                                        !.orphans[id].graceful =
                                           IF ws = "open" THEN @ + 1 ELSE @]

cleanupSession(s, id) ==
  LET s1 == IF s.activeConnections[id] = "open" THEN CloseFrame(s, id) ELSE s
      s2 == ClearTimers(Unregister(s1, id), id)
  IN [s2 EXCEPT !.connectionStatus[id] = 0, !.ended[id] = "closed",
                !.orphans[id].graceful =
                   IF s.activeConnections[id] = "open" THEN @ + 1 ELSE @,
                !.transcriptionBuffers[id] = <<>>, !.currentSpeakers[id] = NoSpeaker,
                !.ev = [op |-> "cleanup", sid |-> id, text |-> s.transcriptionBuffers[id]]]

\* if (status.reconnectAttempts > MAX_RECONNECT_ATTEMPTS)
ExceededBudget(n) == n > MAX_RECONNECT_ATTEMPTS

\* wsConnection.send(decodedAudio) / newWs.send(decodedAudio): the observation of
\* one send.  viaNew: the socket was established by the reconnect just awaited.
SendOn(s, id, p, kind, viaNew) ==
  [s EXCEPT !.snd = [kind |-> kind, st |-> s.activeConnections[id], viaNew |-> viaNew,
                     p |-> p, after |-> s.payloads.forwarded[id]],
            !.payloads.forwarded[id] =
               IF s.activeConnections[id] = "open" /\ p > @ THEN p ELSE @]

\* processAudio after `await handleConnectionFailure(sessionId)`:
\* const newWs = activeConnections.get(sessionId); if (newWs) newWs.send(...)
paRetry(s, id, p, viaNew) ==
  IF p = 0 THEN s
  ELSE IF s.activeConnections[id] = "none" THEN [s EXCEPT !.snd = [kind |-> "noretry"]]
  ELSE SendOn(s, id, p, "retry", viaNew)

\* Math.min(1000 * Math.pow(1.5, reconnectAttempts - 1), 10000), in units of
\* 2^-BackoffShift ms (1.5^k = 3^k / 2^k).
backoffTimeUncapped(reconnectAttempts) ==
  1000 * 3^(reconnectAttempts - 1) * 2^(BackoffShift - (reconnectAttempts - 1))

backoffTime(reconnectAttempts) ==
  LET grown == 1000 * 3^(reconnectAttempts - 1) * 2^(BackoffShift - (reconnectAttempts - 1))
      cap == 10000 * 2^BackoffShift
  IN IF grown < cap THEN grown ELSE cap

\* handleConnectionFailure up to its first await.  cont is the payload of the
\* processAudio call awaiting it (0: called from an event handler or a timer).
handleConnectionFailure(s, id, cont) ==
  LET have == s.connectionStatus[id]
      o == IF have # 0 THEN have ELSE NewStatus(s)
  IN IF o = 0 THEN [s EXCEPT !.ok = FALSE]
     ELSE
     LET s0 == IF have # 0 THEN s
               ELSE [s EXCEPT !.statusObjs[o] = [readyState |-> "CLOSED",
                        reconnectAttempts |-> 0, stale |-> FALSE, used |-> TRUE]]
         existingWs == s0.activeConnections[id]
         s1 == IF existingWs # "none" THEN Terminate(ClearTimers(s0, id), id) ELSE s0
         n == s1.statusObjs[o].reconnectAttempts + 1
         s2 == [s1 EXCEPT !.statusObjs[o].reconnectAttempts = n,
                          !.statusObjs[o].readyState = "CLOSED",
                          !.connectionStatus[id] = o,
                          !.failures[id] = IF ~s.count THEN @
                                           ELSE IF @ > MAX_RECONNECT_ATTEMPTS THEN @
                                           ELSE @ + 1]
     IN IF n > MAX_RECONNECT_ATTEMPTS + 1 + MaxOver THEN [s EXCEPT !.ok = FALSE]
        ELSE IF ExceededBudget(n)
        THEN LET s3 == ClearTimers([Unregister(s2, id) EXCEPT
                                              !.connectionStatus[id] = 0,
                                              !.ended[id] = "exceeded"], id)
                 has == s3.transcriptionBuffers[id] # <<>>
                 s4 == IF has THEN processBufferedTranscription(s3, id, cont)
                       ELSE paRetry(s3, id, cont, FALSE)
             IN [s4 EXCEPT !.ev = [op |-> "hcf", sid |-> id, att |-> n,
                                   exceeded |-> TRUE, flushCalls |-> IF has THEN 1 ELSE 0,
                                   fresh |-> have = 0, failures |-> s2.failures[id]]]
        ELSE [s2 EXCEPT !.tasks = @ \cup {[k |-> "hcf", sid |-> id, pc |-> "backoff", old |-> FALSE,
                                          st |-> o, n |-> n, p |-> cont]},
                        !.ev = [op |-> "hcf", sid |-> id, att |-> n,
                                exceeded |-> FALSE, flushCalls |-> 0, fresh |-> have = 0,
                                failures |-> s2.failures[id],
                                backoffTime |-> backoffTime(n)]]

\* The backoff delay has elapsed: createDeepgramConnection(sessionId) is called.
hcfBackoffDoneNewTurn(s, t) ==
  [s EXCEPT !.tasks = (@ \ {t}) \cup {[t EXCEPT !.pc = "connect"]},
            !.currentSpeakers[t.sid] = NoSpeaker,
            !.ev = [op |-> "hcfCreate", sid |-> t.sid]]

hcfBackoffDone(s, t) ==
  [s EXCEPT !.tasks = (@ \ {t}) \cup {[t EXCEPT !.pc = "connect"]},
            !.ev = [op |-> "hcfCreate", sid |-> t.sid]]

\* The reconnect resolved: lines 400-412.
hcfConnected(s, t) ==
  LET id == t.sid
      old == s.activeConnections[id]
      s1 == [Register(s, id) EXCEPT
                      !.statusObjs[t.st].readyState = "OPEN",
                      !.statusObjs[t.st].stale = FALSE,
                      !.connectionStatus[id] = t.st,
                      !.tasks = @ \ {t},
                      !.failures[id] = 0,
                      !.ev = [op |-> "hcfConnected", sid |-> id, replacedSt |-> old]]
      s2 == resetAutoCloseTimeout(setupKeepAlive(s1, id), id)
  IN paRetry(s2, id, t.p, TRUE)

\* The reconnect rejected (handshake error or the 10 s timeout): line 417.
hcfConnectFailed(s, t) ==
  LET id == t.sid
      s1 == [s EXCEPT !.tasks = @ \ {t},
                      !.ev = [op |-> "hcfFailed", sid |-> id],
                      !.retryTimers[id] = @ + 1,
                      !.ok = s.ok /\ s.retryTimers[id] < MaxRetry]
  IN paRetry(s1, id, t.p, FALSE)

\* A call of processAudio carries its payload (numbered in order of receipt in
\* numbered runs, 1 otherwise); event handlers and timers that call
\* handleConnectionFailure have none (0).
NewPayload(s) == IF s.numbered THEN s.payloads.received + 1 ELSE 1

\* if (!wsConnection || !status || status.readyState !== WebSocket.OPEN)
NeedsConnection(s, id) ==
  \/ s.activeConnections[id] = "none"
  \/ s.connectionStatus[id] = 0
  \/ s.statusObjs[s.connectionStatus[id]].readyState # "OPEN"

\* processAudio up to its first await.  throws: whether ws.send on a socket
\* that is not OPEN throws "WebSocket is not open" or discards the data.
processAudio(s, id, throws) ==
  LET p == NewPayload(s)
      ws == s.activeConnections[id]
      status == s.connectionStatus[id]
      s0 == [s EXCEPT !.ended[id] = "no",
                      !.payloads.received = IF s.numbered THEN @ + 1 ELSE @,
                      !.audioSinceArm[id] = s.autoCloseTimeouts[id] # 0]
  IN IF NeedsConnection(s, id)
     THEN LET slot == Min((1..(MaxTasks + 1)) \
                              {t.n : t \in {u \in s.tasks : u.k = "pa" /\ u.sid = id}})
          IN   [s0 EXCEPT !.tasks = @ \cup {[k |-> "pa", sid |-> id, pc |-> "connect", old |-> FALSE,
                                               st |-> status, n |-> slot, p |-> p]},
                             !.ev = [op |-> "paConnect", sid |-> id,
                                     others |-> Cardinality({t \in s.tasks :
                                        t.k = "pa" /\ t.sid = id /\ t.pc = "connect"})]]
     ELSE LET s1 == resetAutoCloseTimeout([s0 EXCEPT !.statusObjs[status].stale = FALSE,
                                                     !.ev = [op |-> "pa", sid |-> id]], id)
              s2 == SendOn(s1, id, p, "first", FALSE)
          IN IF ws = "open" \/ ~throws THEN s2
             ELSE handleConnectionFailure(s1, id, p)

\* createDeepgramConnection resolved for a processAudio call: lines 105-136.
paConnected(s, t) ==
  LET id == t.sid
      old == s.activeConnections[id]
      o == IF t.st # 0 THEN t.st ELSE NewStatus(s)
  IN IF o = 0 THEN [s EXCEPT !.ok = FALSE]
     ELSE
     LET s1 == [Register(s, id) EXCEPT !.tasks = @ \ {t}, !.failures[id] = 0]
         \* connectionStatus.set(sessionId, {OPEN, 0, now}); with a captured
         \* status, line 130 then puts the captured object back.
         s2 == IF t.st = 0
               THEN [s1 EXCEPT !.statusObjs[o] = [readyState |-> "OPEN",
                        reconnectAttempts |-> 0, stale |-> FALSE, used |-> TRUE],
                               !.connectionStatus[id] = o]
               ELSE [s1 EXCEPT !.statusObjs[o].stale = FALSE,
                               !.connectionStatus[id] = o]
         s3 == SweepAhead(startHealthCheck(resetAutoCloseTimeout(setupKeepAlive(s2, id), id)),
                          id)
         \* if (status) { ...; resetAutoCloseTimeout(sessionId) }: lines 128-132
         s3b == IF t.st # 0 THEN resetAutoCloseTimeout(s3, id) ELSE s3
         s4 == SendOn(s3b, id, t.p, "first", FALSE)
     IN [s4 EXCEPT !.ev = [op |-> "paConnected", sid |-> id, replacedSt |-> old]]

\* createDeepgramConnection rejected for a processAudio call: line 123 rethrows.
paConnectFailed(s, t) ==
  [s EXCEPT !.tasks = @ \ {t}, !.ev = [op |-> "paFailed", sid |-> t.sid]]

\* ws.on('error') of the registered socket while OPEN; its close event follows.
\* activeConnections.get(sessionId) === ws holds, so the failure is handled.
onSocketError(s, id) ==
  handleConnectionFailure([s EXCEPT !.activeConnections[id] = "closing"], id, 0)

\* ws.on('close') of the registered socket.
onSocketClose(s, id) ==
  handleConnectionFailure([s EXCEPT !.activeConnections[id] = "closed"], id, 0)

\* ws.on('close') of a socket that is not the registered one
\* (activeConnections.get(sessionId) !== ws): nothing is done.  graceful: the
\* socket was closed by closeConnection or cleanupSession.
onUnregisteredCloseFails(s, id, graceful) ==
  [handleConnectionFailure(
     [s EXCEPT !.orphans[id].closing = @ - 1,
               !.orphans[id].graceful = IF graceful THEN @ - 1 ELSE @], id, 0)
     EXCEPT !.ev = IF graceful THEN [op |-> "gracefulClose", sid |-> id] ELSE NoEv]

onUnregisteredClose(s, id, graceful) ==
  [s EXCEPT !.orphans[id].closing = @ - 1,
            !.orphans[id].graceful = IF graceful THEN @ - 1 ELSE @,
            !.ev = IF graceful THEN [op |-> "gracefulClose", sid |-> id] ELSE NoEv]

\* The keep-alive and heartbeat interval callbacks of the interval t.
\* ws.readyState === WebSocket.OPEN of the socket the interval was set up for:
\* the registered socket, or a replaced one (open: whether that one is OPEN).
IntervalSocketOpen(s, t, open) ==
  IF t.orphan THEN open ELSE s.activeConnections[t.sid] = "open"

\* clearInterval(interval); map.delete(sessionId): the callback clears itself
\* and removes the session's entry, whichever interval that entry records.
ClearSelf(s, t) == Record(ClearTimer(s, t.sid, t.kind, t.id), t.sid, t.kind, 0)

\* ws.ping() if the socket is OPEN, else the interval is cleared.
keepAliveTick(s, t, open) ==
  LET s1 == [s EXCEPT !.ev = [op |-> "keepAlive", sid |-> t.sid]]
  IN IF IntervalSocketOpen(s, t, open) THEN [s1 EXCEPT !.snd = [kind |-> "ping"]]
     ELSE ClearSelf(s1, t)

\* ws.send(HEARTBEAT_DATA) if the socket is OPEN and lastActive is older than
\* AUTO_CLOSE_TIMEOUT / 2 (quiet), else nothing; the interval is cleared when
\* the socket is not OPEN.
heartbeatTickResets(s, t, open, quiet) ==
  resetAutoCloseTimeout([s EXCEPT !.ev = [op |-> "heartbeat", sid |-> t.sid]], t.sid)

heartbeatTick(s, t, open, quiet) ==
  LET s1 == [s EXCEPT !.ev = [op |-> "heartbeat", sid |-> t.sid]]
  IN IF IntervalSocketOpen(s, t, open)
     THEN IF quiet THEN [s1 EXCEPT !.snd = [kind |-> "heartbeat"]] ELSE s1
     ELSE ClearSelf(s1, t)

\* The callback of the auto-close timeout t, which is pending no longer once
\* it has fired: lines 252-262.
autoCloseFire(s, t) ==
  LET id == t.sid
      s0 == ClearTimer(s, id, "autoClose", t.id)
      s1 == processBufferedTranscription(s0, id, 0)
      s2 == closeConnection(s1, id)
  IN [s2 EXCEPT !.ev = [op |-> "autoClose", sid |-> id,
                        ws |-> s.activeConnections[id],
                        st |-> s.connectionStatus[id],
                        text |-> s.transcriptionBuffers[id],
                        recorded |-> s.autoCloseTimeouts[id] = t.id,
                        audioSince |-> s.audioSinceArm[id]]]

\* One session of the health sweep: lines 702-727.
healthSession(s, id) ==
  LET status == s.connectionStatus[id]
  IN IF status = 0 THEN s
     ELSE IF s.statusObjs[status].stale
          THEN closeConnection(processBufferedTranscription(s, id, 0), id)
          ELSE IF s.statusObjs[status].readyState # "OPEN"
               THEN handleConnectionFailure(s, id, 0)
               ELSE s

\* for (const [sessionId, status] of connectionStatus.entries()): the entries
\* in insertion order; a handler only removes the entry being visited.
RECURSIVE healthSweep(_, _)
healthSweep(s, ids) ==
  IF ids = <<>> THEN s
  ELSE healthSweep(healthSession(s, Head(ids)), Tail(ids))

\* ev names the sessions the sweep found stale, if any.
healthTick(s) ==
  LET s1 == healthSweep([s EXCEPT !.ev = NoEv,
                                   !.sweepDue = [id \in Sessions |-> FALSE]], s.statusOrder)
      stale == {id \in Sessions : /\ s.connectionStatus[id] # 0
                                  /\ s.statusObjs[s.connectionStatus[id]].stale}
      s2 == IF stale = {} THEN s1
            ELSE [s1 EXCEPT !.ev = [op |-> "sweep", stale |-> stale,
                                    texts |-> s.transcriptionBuffers,
                                    ws |-> s.activeConnections]]
  IN IF \A id \in Sessions : s2.activeConnections[id] = "none"
     THEN [s2 EXCEPT !.healthCheckInterval = FALSE] ELSE s2

\* ws.on('message') with a response that has an "error" field: lines 461-464.
onProviderErrorFails(s, id) ==
  [handleConnectionFailure(s, id, 0) EXCEPT !.ev = [op |-> "providerError", sid |-> id]]

onProviderError(s, id) == [s EXCEPT !.ev = [op |-> "providerError", sid |-> id]]

\* processInterimTranscription: the text, labelled with its speaker if there
\* is one, is posted to the stream endpoint at once.
InterimEv(id, text, speaker) ==
  [op |-> "interim", sid |-> id, speaker |-> speaker,
   text |-> IF speaker # NoSpeaker THEN SpeakerLabel(speaker) \o text ELSE text]

processInterimBuffers(s, id, text, speaker) ==
  [bufferTranscription(s, id, text, speaker) EXCEPT !.ev = InterimEv(id, text, speaker)]

processInterimTranscription(s, id, text, speaker) ==
  [s EXCEPT !.ev = InterimEv(id, text, speaker)]

\* ws.on('message') with a transcript: lines 481-504.
onTranscript(s, id, text, speaker, isFinal) ==
  LET s1 == IF isFinal THEN bufferTranscription(s, id, text, speaker)
            ELSE processInterimTranscription(s, id, text, speaker)
      status == s1.connectionStatus[id]
      s2 == IF status # 0 THEN [s1 EXCEPT !.statusObjs[status].stale = FALSE] ELSE s1
  IN [resetAutoCloseTimeout(s2, id) EXCEPT
        !.ev = IF isFinal /\ s.log
               THEN [op |-> "final", sid |-> id, text |-> text, speaker |-> speaker,
                     before |-> s.transcriptionBuffers[id],
                     lastSpeaker |-> s.currentSpeakers[id],
                     lastText |-> IF s.accepted = <<>> THEN <<>>
                                  ELSE s.accepted[Len(s.accepted)].text]
               ELSE IF isFinal THEN NoEv ELSE s1.ev]

\* storeTranscription returned or threw, and sendTranscriptToStream returned
\* (it catches its own errors): lines 610-623.
storeDone(s, i, stOk) ==
  LET f == s.flushes[i]
  IN IF stOk
     THEN [s EXCEPT !.flushes[i].pc = "stream",
                    !.stored = IF s.log THEN Append(@, f.text) ELSE @,
                    !.ok = s.ok /\ Len(s.stored) < MaxStored]
     ELSE paRetry([s EXCEPT !.flushes = RemoveAt(@, i),
                            !.ev = [op |-> "storeFailed", sid |-> f.sid]],
                  f.sid, f.cont, FALSE)

streamDone(s, i) ==
  LET f == s.flushes[i]
  IN paRetry([s EXCEPT !.flushes = RemoveAt(@, i), !.transcriptionBuffers[f.sid] = <<>>,
                       !.ev = NoEv], f.sid, f.cont, FALSE)

\* Five minutes pass without activity on the session (lastActive grows old).
ageStatus(s, id) ==
  [s EXCEPT !.statusObjs[s.connectionStatus[id]].stale = TRUE, !.ev = NoEv]

\* ------------------------------------------------------------ audio server
toLowerCase(str) == [i \in 1..Len(str) |-> IF str[i] = "A" THEN "a" ELSE str[i]]

Min3(a, b, c) == IF a <= b /\ a <= c THEN a ELSE IF b <= c THEN b ELSE c

RECURSIVE levenshteinDistance(_, _)
levenshteinDistance(str1, str2) ==
  IF Len(str1) = 0 THEN Len(str2)
  ELSE IF Len(str2) = 0 THEN Len(str1)
  ELSE LET a == SubSeq(str1, 1, Len(str1) - 1)
           b == SubSeq(str2, 1, Len(str2) - 1)
           cost == IF str1[Len(str1)] = str2[Len(str2)] THEN 0 ELSE 1
       IN Min3(levenshteinDistance(a, str2) + 1,
               levenshteinDistance(str1, b) + 1,
               levenshteinDistance(a, b) + cost)

\* calculateSimilarity(str1, str2) > 0.85, in hundredths
SimilarityAbove85(str1, str2) ==
  LET s1 == toLowerCase(str1)
      s2 == toLowerCase(str2)
      maxLength == IF Len(s1) >= Len(s2) THEN Len(s1) ELSE Len(s2)
  IN maxLength = 0 \/ 100 * (maxLength - levenshteinDistance(s1, s2)) > 85 * maxLength

isDuplicateTranscription(c, transcript) ==
  \/ transcript = <<>>
  \/ c.lastTranscriptionAdded # <<>> /\ SimilarityAbove85(transcript, c.lastTranscriptionAdded)
  \/ \E i \in 1..Len(c.recentTranscripts) : SimilarityAbove85(transcript, c.recentTranscripts[i])

\* this.transcriptionBuffer.join(' ')
RECURSIVE Join(_)
Join(buf) ==
  IF Len(buf) = 0 THEN <<>>
  ELSE IF Len(buf) = 1 THEN buf[1]
  ELSE buf[1] \o <<" ">> \o Join(Tail(buf))

\* flushSegment up to `await this.writeWav(...)`.
flushSegment(s) ==
  LET c == s.client
  IN IF c.saveFrames = 0 THEN s
     ELSE [s EXCEPT !.client.segs = Append(@, [frames |-> c.saveFrames,
                                               index |-> c.segmentIndex,
                                               pc |-> "write", close |-> FALSE])]

\* addOpusPacket.  decoded: whether the decoder returns PCM for the packet
\* (decodePacket returns null when the decode throws); len: its byte length.
AcceptPcm(s, len) ==
  LET s1 == [s EXCEPT !.client.processingTimeout = "pending",
                      !.client.timerAge = 0,
                      !.client.pcmFrames = @ + 1,
                      !.client.saveFrames = @ + 1,
                      !.client.sampleCount = @ + (len \div SAMPLE_WIDTH)]
  IN IF s1.client.sampleCount >= TARGET_SAMPLES THEN flushSegment(s1) ELSE s1

addOpusPacketUnchecked(s, decoded, len) ==
  AcceptPcm([s EXCEPT !.ev = [op |-> "packet", decoded |-> decoded, before |-> s.client]],
            len)

addOpusPacket(s, decoded, len) ==
  LET s0 == [s EXCEPT !.ev = [op |-> "packet", decoded |-> decoded, before |-> s.client]]
  IN IF ~decoded THEN s0 ELSE AcceptPcm(s0, len)

\* writeWav settled.  A rejection leaves flushSegment (and addOpusPacket) by
\* the exception; the message handler logs it.
segWritten(s, i, wrOk) ==
  IF wrOk THEN [s EXCEPT !.client.segs[i].pc = "transcribe", !.ev = NoEv]
  ELSE [s EXCEPT !.client.segs = RemoveAt(@, i), !.ev = NoEv]

\* createWavBuffer and transcribeAudio settled: the rest of flushSegment.
\* transcript is <<>> when there is none or when the try block threw.
\* recentTranscripts.push(transcript); if (length > maxRecentTranscripts) shift()
PushRecentDropsNewest(recent, transcript) ==
  IF Len(recent) >= maxRecentTranscripts THEN recent ELSE Append(recent, transcript)

PushRecent(recent, transcript) ==
  LET pushed == Append(recent, transcript)
  IN IF Len(pushed) > maxRecentTranscripts THEN Tail(pushed) ELSE pushed

\* flushSegment, lines 383-396: what a transcript does to the client's buffers.
acceptTranscript(c, transcript) ==
  IF transcript # <<>> /\ ~isDuplicateTranscription(c, transcript)
  THEN [c EXCEPT !.transcriptionBuffer = Append(@, transcript),
                 !.lastTranscriptionAdded = transcript,
                 !.sinceFinal = 0,
                 !.flushedSince = FALSE,
                 !.recentTranscripts = PushRecent(@, transcript)]
  ELSE c

\* processBufferedTranscriptions up to `await createTranscription(...)`.
processBufferedTranscriptions(s) ==
  LET c == s.client
  IN IF Len(c.transcriptionBuffer) = 0 THEN s
     ELSE [s EXCEPT !.client.created = Append(@, Join(c.transcriptionBuffer)),
                    !.client.flushedSince = TRUE,
                    !.client.procs = Append(@, [text |-> Join(c.transcriptionBuffer),
                                                pc |-> "create"])]

\* The flushSegment call the close handler awaited has returned: lines 648-651.
afterCloseFlush(s) ==
  IF Len(s.client.transcriptionBuffer) > 0 THEN processBufferedTranscriptions(s) ELSE s

segTranscribed(s, i, transcript) ==
  LET c == s.client
      c1 == acceptTranscript(c, transcript)
      s1 == [s EXCEPT !.client = [c1 EXCEPT !.segs = RemoveAt(@, i),
                                            !.saveFrames = 0,
                                            !.sampleCount = 0,
                                            !.segmentIndex = @ + 1],
                      !.ev = NoEv]
  IN IF c.segs[i].close THEN afterCloseFlush(s1) ELSE s1

\* The same return of transcribeAudio with ev and, in a logged run, accepted
\* recording what was offered and what was added.
offerTranscript(s, i, transcript) ==
  LET s1 == segTranscribed(s, i, transcript)
      added == transcript # <<>> /\ ~isDuplicateTranscription(s.client, transcript)
  IN [s1 EXCEPT !.accepted = IF s.log /\ added THEN Append(@, transcript) ELSE @,
                !.ev = [op |-> "offer", transcript |-> transcript, before |-> s.client]]

\* ws.on('close') of the audio server: the silence timeout is cleared, the
\* frames left over are flushed as a last segment and, when that call has
\* returned, the buffered transcripts are processed.
clientClose(s) ==
  LET c == s.client
      s0 == [s EXCEPT !.client.processingTimeout = "null",
                      !.client.timerAge = 0,
                      !.client.closed = TRUE,
                      !.ev = [op |-> "clientClose", before |-> c]]
  IN IF c.sampleCount > 0 \/ c.saveFrames > 0
     THEN IF c.saveFrames = 0 THEN afterCloseFlush(s0)
          ELSE LET s1 == flushSegment(s0)
               IN [s1 EXCEPT !.client.segs[Len(s1.client.segs)].close = TRUE]
     ELSE afterCloseFlush(s0)

\* The silence timeout set by addOpusPacket fires.
silenceFire(s) ==
  LET s1 == processBufferedTranscriptions([s EXCEPT !.client.processingTimeout = "fired",
                                                    !.client.timerAge = 0])
  IN [s1 EXCEPT !.ev = [op |-> "silence", buffer |-> s.client.transcriptionBuffer]]

\* createTranscription settled: on success the analysis is awaited next.
procCreated(s, i, crOk) ==
  IF crOk THEN [s EXCEPT !.client.procs[i].pc = "analyze", !.ev = NoEv]
  ELSE [s EXCEPT !.client.procs = RemoveAt(@, i),
                 !.ev = [op |-> "procFailed", text |-> s.client.procs[i].text]]

\* analyzeText and the processing of its result settled: the buffer is cleared
\* on success, a failure is logged.
procAnalyzed(s, i, anOk) ==
  IF anOk THEN [s EXCEPT !.client.procs = RemoveAt(@, i),
                         !.client.transcriptionBuffer = <<>>,
                         !.client.sinceFinal = 0,
                         !.ev = [op |-> "procDone", text |-> s.client.procs[i].text]]
  ELSE [s EXCEPT !.client.procs = RemoveAt(@, i),
                 !.ev = [op |-> "procFailed", text |-> s.client.procs[i].text]]

\* ------------------------------------------------------- text stream route
\* streamTimeouts.delete(sessionId): a recorded timeout that is still pending
\* stays pending without a record.
streamTimeoutsDelete(st) ==
  [st EXCEPT !.timeout = "none",
             !.stray = IF st.timeout = "pending" THEN @ + 1 ELSE @]

\* POST /: the fragment is appended, the recorded timeout is cleared (which
\* does nothing to one that has fired) and a new one is set and recorded.
postFragment(s, text) ==
  [s EXCEPT !.stream.buffer = @ \o <<" ", text>>,
            !.stream.timeout = "pending",
            !.ev = [op |-> "post", had |-> s.stream.timeout]]

\* The timeout callback up to `await llmService.analyzeText(fullText)`.
streamCallback(s) ==
  IF s.stream.buffer # <<>>
  THEN [s EXCEPT !.stream.runs = Append(@, [kind |-> "timeout", text |-> s.stream.buffer])]
  ELSE [s EXCEPT !.stream = streamTimeoutsDelete(@)]

\* The recorded timeout expires.
streamTimeoutFire(s) ==
  [streamCallback([s EXCEPT !.stream.timeout = "fired"])
     EXCEPT !.ev = [op |-> "streamFire", recorded |-> TRUE]]

\* A timeout that is pending without a record expires.
strayTimeoutFire(s) ==
  [streamCallback([s EXCEPT !.stream.stray = @ - 1])
     EXCEPT !.ev = [op |-> "streamFire", recorded |-> FALSE]]

\* POST /process-now/:sessionId up to its first await.
processNow(s) ==
  [s EXCEPT !.stream.timeout = "none",
            !.stream.runs = Append(@, [kind |-> "now", text |-> s.stream.buffer]),
            !.ev = [op |-> "processNow", had |-> s.stream.timeout]]

\* The analysis and the processing of its result settled.
streamRunDone(s, i, anOk) ==
  LET r == s.stream.runs[i]
      st1 == [s.stream EXCEPT !.runs = RemoveAt(@, i),
                              !.buffer = IF anOk THEN <<>> ELSE @]
  IN [s EXCEPT !.stream = IF r.kind = "timeout" THEN streamTimeoutsDelete(st1) ELSE st1,
               !.ev = [op |-> "streamDone", kind |-> r.kind, ok |-> anOk,
                       text |-> r.text, lost |-> s.stream.buffer]]

\* DELETE /:sessionId.
deleteStream(s) ==
  [s EXCEPT !.stream.timeout = "none", !.stream.buffer = <<>>,
            !.ev = [op |-> "deleteStream"]]

\* TickMs of wall-clock time pass in the audio server.
clientTick(s) ==
  LET c == s.client
  IN [s EXCEPT !.client.timerAge = IF c.processingTimeout = "pending" THEN @ + 1 ELSE @,
               !.client.sinceFinal = IF c.transcriptionBuffer # <<>> THEN @ + 1 ELSE @,
               !.ev = NoEv]

\* ------------------------------------- app/hooks/useAudioStreamer.ts
\* A WebSocket object is "none" (not created), "connecting", "open", "failed"
\* (its error event has fired, its close event is due), "closing" (close()
\* was called on it) or "closed" (its close event has fired).
stopStreaming(s) ==
  LET m == s.streamer
      m1 == IF m.websocketRef # 0
            THEN [m EXCEPT !.ws[m.websocketRef] = "closing", !.websocketRef = 0]
            ELSE m
  IN [s EXCEPT !.streamer = [m1 EXCEPT !.isStreaming = FALSE, !.isConnecting = FALSE]]

\* stopStreaming called by the component that uses the hook (or on unmount).
stopCall(s) ==
  [stopStreaming(s) EXCEPT !.streamer.stopped = TRUE, !.ev = [op |-> "stop"]]

\* startStreaming up to `await NetInfo.fetch()`.
startStreaming(s, urlOk) ==
  IF ~urlOk
  THEN [s EXCEPT !.streamer.error = TRUE, !.streamer.stopped = FALSE,
                 !.ev = [op |-> "start", rejected |-> TRUE]]
  ELSE [s EXCEPT !.streamer.starts = @ + 1, !.streamer.stopped = FALSE,
                 !.ev = [op |-> "start", rejected |-> FALSE]]

\* NetInfo.fetch resolved: the rest of startStreaming, up to the handlers of
\* the new WebSocket.  throws: the WebSocket constructor throws.
FreeSockets(m) == {i \in SocketIds : m.ws[i] \in {"none", "closed"}}

startConnect(s, reachable, throws) ==
  LET s0 == [s EXCEPT !.streamer.starts = @ - 1, !.ev = [op |-> "connect"]]
  IN IF ~reachable THEN [s0 EXCEPT !.streamer.error = TRUE]
     ELSE LET s1 == IF s0.streamer.websocketRef # 0 THEN stopStreaming(s0) ELSE s0
              s2 == [s1 EXCEPT !.streamer.isConnecting = TRUE, !.streamer.error = FALSE]
          IN IF throws
             THEN [s2 EXCEPT !.streamer.error = TRUE, !.streamer.isConnecting = FALSE,
                             !.streamer.isStreaming = FALSE]
             ELSE IF FreeSockets(s2.streamer) = {} THEN [s EXCEPT !.ok = FALSE]
             ELSE [s2 EXCEPT !.streamer.ws[Min(FreeSockets(s2.streamer))] = "connecting"]

\* ws.onopen.
wsOnOpen(s, i) ==
  [s EXCEPT !.streamer.ws[i] = "open", !.streamer.isConnecting = FALSE,
            !.streamer.isStreaming = TRUE, !.streamer.error = FALSE,
            !.streamer.websocketRef = i, !.ev = [op |-> "open", ws |-> i]]

\* ws.onerror.
wsOnError(s, i) ==
  [s EXCEPT !.streamer.ws[i] = "failed", !.streamer.error = TRUE,
            !.streamer.isConnecting = FALSE, !.streamer.isStreaming = FALSE,
            !.streamer.websocketRef = IF @ = i THEN 0 ELSE @,
            !.ev = [op |-> "error", ws |-> i]]

\* ws.onclose.  The `error` the handler reads is the one captured when the
\* callback was created (null), so the message is set whenever the socket
\* was not the current one or did not close cleanly.
wsOnClose(s, i, wasClean) ==
  LET wasSuccessfullyOpened == s.streamer.websocketRef = i
  IN [s EXCEPT !.streamer.ws[i] = "closed",
               !.streamer.isConnecting = FALSE, !.streamer.isStreaming = FALSE,
               !.streamer.websocketRef = IF @ = i THEN 0 ELSE @,
               !.streamer.error = IF ~wasSuccessfullyOpened \/ ~wasClean THEN TRUE ELSE @,
               !.ev = [op |-> "close", ws |-> i]]

\* sendAudio: sends on the current socket if it is open; a throwing send
\* sets the error.
sendAudio(s, throws) ==
  LET m == s.streamer
  IN IF m.websocketRef # 0 /\ m.ws[m.websocketRef] = "open" /\ throws
     THEN [s EXCEPT !.streamer.error = TRUE, !.ev = [op |-> "sendAudio"]]
     ELSE [s EXCEPT !.ev = [op |-> "sendAudio"]]

\* ------------------------------------------------------ utils/textUtils.js
\* The set of two-character substrings of str; a string of at most one
\* character is the only member of its set.
getBigramsOfPairsOnly(str) == {SubSeq(str, i, i + 1) : i \in 1..(Len(str) - 1)}

getBigrams(str) ==
  IF Len(str) <= 1 THEN {str}
  ELSE {SubSeq(str, i, i + 1) : i \in 1..(Len(str) - 1)}

\* The score is the quotient num / den of two integers.
calculateSimilarity(str1, str2) ==
  IF str1 = <<>> \/ str2 = <<>> THEN [num |-> 0, den |-> 1]
  ELSE LET l1 == toLowerCase(str1)
           l2 == toLowerCase(str2)
           bigrams1 == getBigrams(l1)
           bigrams2 == getBigrams(l2)
           intersection == {x \in bigrams1 : x \in bigrams2}
       IN IF l1 = l2 THEN [num |-> 1, den |-> 1]
          ELSE [num |-> 2 * Cardinality(intersection),
                den |-> Cardinality(bigrams1) + Cardinality(bigrams2)]

\* One call of calculateSimilarity, as made by the duplicate checks of the
\* memory and action-item services.
similarityCall(s, str1, str2) ==
  [s EXCEPT !.ev = [op |-> "similarity", str1 |-> str1, str2 |-> str2,
                    score |-> calculateSimilarity(str1, str2)]]

\* ------------------------------------------------ storage of the model itself
\* Status objects nothing refers to any more are reused.
Collect(s) ==
  LET liveO == {s.connectionStatus[id] : id \in Sessions} \cup {t.st : t \in s.tasks}
  IN [s EXCEPT !.statusObjs = [o \in StatusIds |->
                    IF o \in liveO THEN s.statusObjs[o] ELSE FreeStatus]]

\* The iteration order of the connectionStatus Map after a step: the keys that
\* are still present keep their places, a key that was set without being
\* present is last.
RECURSIVE InSomeOrder(_)
InSomeOrder(S) ==
  IF S = {} THEN <<>> ELSE LET x == CHOOSE y \in S : TRUE IN <<x>> \o InSomeOrder(S \ {x})

MapOrder(order, status) ==
  LET Present(id) == status[id] # 0
      kept == SelectSeq(order, Present)
  IN kept \o InSomeOrder({id \in Sessions : Present(id)} \ {kept[i] : i \in 1..Len(kept)})

\* What one run may hold at a time: async calls in flight, flushes in flight,
\* injected faults (0: not counted), and whether fragments and stored texts are
\* recorded.
Serial == [tasks |-> SerialTasks, flushes |-> SerialFlush, faults |-> 0, log |-> FALSE,
           timed |-> FALSE, numbered |-> FALSE, count |-> FALSE, segs |-> MaxSegs, packets |-> MaxPackets]
Racing == [tasks |-> MaxTasks, flushes |-> MaxFlush, faults |-> MaxFaults, log |-> FALSE,
           timed |-> FALSE, numbered |-> FALSE, count |-> FALSE, segs |-> MaxSegs, packets |-> MaxPackets]
Logged == [tasks |-> SerialTasks, flushes |-> MaxFlush, faults |-> 0, log |-> TRUE,
           timed |-> FALSE, numbered |-> FALSE, count |-> FALSE, segs |-> MaxSegs, packets |-> MaxPackets]
\* timed: the 30 s auto-close timeout does not expire before what was
\* already waiting when it was armed has happened (a backoff and a connect
\* take at most 10 s each, a retry timer 1 s, the tick of a running health
\* sweep 15 s); one call in flight at a time.
Timed == [tasks |-> SerialTasks, flushes |-> SerialFlush, faults |-> MaxFaults, log |-> FALSE,
          timed |-> TRUE, numbered |-> FALSE, count |-> FALSE, segs |-> MaxSegs, packets |-> MaxPackets]
\* count: the failures of a session since it last connected are counted.
Counting == [tasks |-> SerialTasks, flushes |-> SerialFlush, faults |-> 0, log |-> FALSE,
             timed |-> FALSE, numbered |-> FALSE, count |-> TRUE, segs |-> MaxSegs,
             packets |-> MaxPackets]
Recon == [tasks |-> SerialTasks, flushes |-> MaxFlush, faults |-> MaxFaults, log |-> TRUE,
          timed |-> FALSE, numbered |-> FALSE, count |-> FALSE, segs |-> MaxSegs, packets |-> MaxPackets]
\* numbered: audio payloads carry their number of receipt.
Numbered == [tasks |-> MaxTasks, flushes |-> SerialFlush, faults |-> MaxFaults,
             log |-> FALSE, timed |-> FALSE, numbered |-> TRUE, count |-> FALSE, segs |-> MaxSegs, packets |-> MaxPackets]

\* Two sessions share what one run may hold.
Paired == [tasks |-> SerialTasks, flushes |-> SerialFlush, faults |-> PairFaults, log |-> FALSE,
           timed |-> FALSE, numbered |-> FALSE, count |-> FALSE, segs |-> MaxSegs, packets |-> MaxPackets]

\* Packets arrive while flushSegment calls are waiting.
Segmenting == [tasks |-> SerialTasks, flushes |-> SerialFlush, faults |-> 0, log |-> FALSE,
               timed |-> FALSE, numbered |-> FALSE, count |-> FALSE, segs |-> MaxSegsRacing, packets |-> MaxPackets]

\* A service session and an audio-server client side by side.
Flushing == [tasks |-> SerialTasks, flushes |-> SerialFlush, faults |-> 0, log |-> FALSE,
             timed |-> FALSE, numbered |-> FALSE, count |-> FALSE, segs |-> MaxSegs,
             packets |-> MaxFlushPackets]

\* Segments follow one another until the window of recent transcripts is full
\* and beyond.
Windowing == [tasks |-> SerialTasks, flushes |-> MaxFlush, faults |-> 0, log |-> TRUE,
              timed |-> FALSE, numbered |-> FALSE, count |-> FALSE, segs |-> MaxSegs, packets |-> MaxOffered]

In(b) == [Cur EXCEPT !.log = b.log, !.numbered = b.numbered, !.timed = b.timed,
                     !.count = b.count]

\* A step of the program (the environment's fault count is left alone) ...
Step(n, b) ==
  /\ n.ok
  /\ Cardinality(n.tasks) <= b.tasks
  /\ Len(n.flushes) <= b.flushes
  /\ \A id \in Sessions : n.orphans[id].open + n.orphans[id].closing <= MaxOrphans
  /\ n.payloads.received <= MaxPayloads
  /\ n.client.pcmFrames <= b.packets
  /\ Len(n.client.segs) <= b.segs
  /\ Len(n.client.procs) <= MaxProcs
  /\ Len(n.client.created) <= MaxCreated
  /\ n.client.sinceFinal <= MaxQuiet
  /\ Len(n.stream.buffer) <= 2 * MaxStreamFrags
  /\ Len(n.stream.runs) <= MaxStreamRuns
  /\ n.stream.stray <= MaxStray
  /\ n.streamer.starts <= MaxStarts
  /\ LET c == Collect(n)
     IN /\ activeConnections' = c.activeConnections
        /\ connectionStatus' = c.connectionStatus
        /\ statusOrder' = MapOrder(statusOrder, c.connectionStatus)
        /\ statusObjs' = c.statusObjs
        /\ orphans' = c.orphans
        /\ tasks' = c.tasks
        /\ retryTimers' = c.retryTimers
        /\ keepAliveIntervals' = c.keepAliveIntervals
        /\ heartbeatIntervals' = c.heartbeatIntervals
        /\ autoCloseTimeouts' = c.autoCloseTimeouts
        /\ healthCheckInterval' = c.healthCheckInterval
        /\ transcriptionBuffers' = c.transcriptionBuffers
        /\ currentSpeakers' = c.currentSpeakers
        /\ flushes' = c.flushes
        /\ stored' = c.stored
        /\ accepted' = c.accepted
        /\ ended' = c.ended
        /\ audioSinceArm' = c.audioSinceArm
        /\ client' = c.client
        /\ payloads' = c.payloads
        /\ timerLog' = c.timerLog
        /\ sweepDue' = c.sweepDue
        /\ failures' = c.failures
        /\ stream' = c.stream
        /\ streamer' = c.streamer
        /\ ev' = c.ev
        /\ snd' = c.snd

Commit(n, b) == Step(n, b) /\ faults' = faults

\* ... and a step caused by a fault of the network or the provider.
Fault(n, b) ==
  /\ Step(n, b)
  /\ IF b.faults = 0 THEN faults' = faults
     ELSE faults < b.faults /\ faults' = faults + 1

\* ----------------------------------------------------------------- actions
ProcessAudio(id, b) ==
  /\ id \in Sessions
  /\ \E throws \in BOOLEAN : Commit(processAudio(In(b), id, throws), b)

\* The call of processAudio that finds the session without a connection and
\* without a call in flight.
FirstAudio(id, b) ==
  /\ activeConnections[id] = "none" /\ tasks = {}
  /\ \E throws \in BOOLEAN : Commit(processAudio(In(b), id, throws), b)

ConnectOpen(id, b) ==
  \E t \in tasks : /\ t.sid = id /\ t.pc = "connect"
                   /\ Commit(IF t.k = "pa" THEN paConnected(In(b), t)
                             ELSE hcfConnected(In(b), t), b)

ConnectFail(id, b) ==
  \E t \in tasks : /\ t.sid = id /\ t.pc = "connect"
                   /\ Fault(IF t.k = "pa" THEN paConnectFailed(In(b), t)
                            ELSE hcfConnectFailed(In(b), t), b)

BackoffDone(id, b) ==
  \E t \in tasks : t.sid = id /\ t.pc = "backoff" /\ Commit(hcfBackoffDone(In(b), t), b)

RetryFire(id, b) ==
  /\ retryTimers[id] > 0
  /\ Commit(handleConnectionFailure([In(b) EXCEPT !.retryTimers[id] = @ - 1], id, 0), b)

SocketError(id, b) ==
  /\ activeConnections[id] = "open"
  /\ Fault(onSocketError(In(b), id), b)

\* The provider or the network ends an open socket, the registered one or a
\* replaced one; its close event follows.
RegisteredDrop(id, b) ==
  /\ activeConnections[id] = "open"
  /\ Fault([In(b) EXCEPT !.activeConnections[id] = "closing"], b)

SocketDrop(id, b) ==
  \/ RegisteredDrop(id, b)
  \/ /\ orphans[id].open > 0
     /\ Commit([In(b) EXCEPT !.orphans[id].open = @ - 1, !.orphans[id].closing = @ + 1], b)

\* A close event of the registered socket (handled as a failure) ...
RegisteredClose(id, b) ==
  /\ activeConnections[id] = "closing"
  /\ Commit(onSocketClose(In(b), id), b)

\* ... and of a replaced or unregistered one
\* (activeConnections.get(sessionId) !== ws).
UnregisteredClose(id, b) ==
  /\ orphans[id].closing > 0
  /\ \E graceful \in BOOLEAN :
        /\ IF graceful THEN orphans[id].graceful > 0
           ELSE orphans[id].closing > orphans[id].graceful
        /\ Commit(onUnregisteredClose(In(b), id, graceful), b)

SocketClose(id, b) ==
  \/ RegisteredClose(id, b)
  \/ UnregisteredClose(id, b)

\* An interval that is pending ticks.  A socket that was replaced while open
\* may be OPEN still or not.
OpenOrNot(t) ==
  IF t.orphan /\ orphans[t.sid].open > 0 THEN BOOLEAN
  ELSE IF t.orphan THEN {FALSE} ELSE {activeConnections[t.sid] = "open"}

KeepAliveTick(id, b) ==
  \E t \in timerLog.pending :
     \E open \in OpenOrNot(t) :
        /\ t.sid = id /\ t.kind = "keepAlive"
        /\ Commit(keepAliveTick(In(b), t, open), b)

HeartbeatTick(id, b) ==
  \E t \in timerLog.pending :
     \E open \in OpenOrNot(t), quiet \in BOOLEAN :
        /\ t.sid = id /\ t.kind = "heartbeat"
        /\ Commit(heartbeatTick(In(b), t, open, quiet), b)

\* A pending auto-close timeout expires, 30 s after it was armed.  In a timed
\* run everything that was waiting at the arming has happened by then: the
\* backoffs and connects (at most 10 s each), the retry timers (1 s) and the
\* tick of the health sweep (15 s).
AutoCloseFire(id, b) ==
  \E t \in timerLog.pending :
     /\ t.sid = id /\ t.kind = "autoClose"
     /\ b.timed => /\ \A u \in tasks : u.sid = id => ~u.old
                   /\ retryTimers[id] = 0
                   /\ ~sweepDue[id]
     /\ Commit(autoCloseFire(In(b), t), b)

\* The expiry in a run in which the audio never pauses for 30 s: a processAudio
\* call has started since the timeout was armed.
AutoCloseFireInAudio(id, b) ==
  /\ audioSinceArm[id]
  /\ AutoCloseFire(id, b)

HealthTick(b) == healthCheckInterval /\ Commit(healthTick(In(b)), b)

\* A tick of the sweep that falls between two calls: no backoff or connect
\* is being awaited (a retry timer may be pending).
HealthTickBetweenCalls(b) ==
  /\ tasks = {}
  /\ HealthTick(b)

Age(id, b) ==
  /\ connectionStatus[id] # 0 /\ autoCloseTimeouts[id] = 0
  /\ ~statusObjs[connectionStatus[id]].stale
  /\ Commit(ageStatus(In(b), id), b)

CleanupSession(id, b) ==
  /\ id \in Sessions
  /\ Commit(cleanupSession(In(b), id), b)

\* A final transcript arrives on a socket of the session.  In a logged run the
\* fragments and the stored texts are recorded.
\* A message of the provider is delivered on a socket of the session that is
\* OPEN (registered or replaced), or that is CLOSING because the service sent
\* its close frame: the message handler does not look at the readyState.
Receiving(id) ==
  \/ activeConnections[id] = "open"
  \/ orphans[id].open > 0
  \/ orphans[id].graceful > 0

OnFinal(id, texts, speakers, b) ==
  /\ IF b.log THEN Len(accepted) < MaxFrags ELSE Len(transcriptionBuffers[id]) < MaxBuffer
  /\ Receiving(id)
  /\ \E text \in texts, speaker \in speakers :
        Commit(onTranscript(In(b), id, text, speaker, TRUE), b)

OnInterim(id, b) ==
  /\ Receiving(id)
  /\ \E speaker \in {"1", NoSpeaker} :
        Commit(onTranscript(In(b), id, <<"a">>, speaker, FALSE), b)

OnProviderError(id, b) ==
  /\ Receiving(id)
  /\ Commit(onProviderError(In(b), id), b)

StoreDone(id, b) ==
  \E i \in 1..Len(flushes), stOk \in BOOLEAN :
        /\ flushes[i].sid = id /\ flushes[i].pc = "store"
        /\ Commit(storeDone(In(b), i, stOk), b)

StreamDone(id, b) ==
  \E i \in 1..Len(flushes) :
        flushes[i].sid = id /\ flushes[i].pc = "stream" /\ Commit(streamDone(In(b), i), b)

\* A packet the decoder rejects has no decoded length: one length stands for it.
AddOpusPacket(b) ==
  \E decoded \in BOOLEAN, len \in PcmLengths :
    /\ ~client.closed
    /\ decoded \/ len = 64000
    /\ Commit(addOpusPacket(In(b), decoded, len), b)

SegWritten(b) ==
  \E i \in 1..Len(client.segs), wrOk \in BOOLEAN :
    /\ client.segs[i].pc = "write"
    /\ Commit(segWritten(In(b), i, wrOk), b)

SegTranscribed(b) ==
  \E i \in 1..Len(client.segs), transcript \in Transcripts \cup {<<>>} :
    /\ client.segs[i].pc = "transcribe"
    /\ Commit(segTranscribed(In(b), i, transcript), b)

\* With b.timed the timeout fires SILENCE_DURATION after it was set.
SilenceFire(b) ==
  /\ client.processingTimeout = "pending"
  /\ b.timed => client.timerAge = SilenceTicks
  /\ Commit(silenceFire(In(b)), b)

\* A transcript comes back from transcribeAudio: the next one never seen, or
\* one seen before.
OfferTranscript(b) ==
  \E i \in 1..Len(client.segs),
     transcript \in {FreshTranscripts[k] : k \in 1..Min({Len(FreshWords), Len(accepted) + 1})}
                     \cup {<<"A">>} :
    /\ client.segs[i].pc = "transcribe"
    /\ Commit(offerTranscript(In(b), i, transcript), b)

\* The client's socket closes.
ClientClose(b) ==
  /\ ~client.closed
  /\ Commit(clientClose(In(b)), b)

PostFragment(b) ==
  \E text \in StreamTexts :
    /\ text # ""
    /\ Commit(postFragment(In(b), text), b)

StreamTimeoutFire(b) ==
  /\ stream.timeout = "pending"
  /\ Commit(streamTimeoutFire(In(b)), b)

StrayTimeoutFire(b) ==
  /\ stream.stray > 0
  /\ Commit(strayTimeoutFire(In(b)), b)

ProcessNow(b) ==
  /\ stream.buffer # <<>>
  /\ Commit(processNow(In(b)), b)

StreamRunDone(b) ==
  \E i \in 1..Len(stream.runs), anOk \in BOOLEAN :
    /\ stream.runs[i].kind \in {"timeout", "now"}
    /\ Commit(streamRunDone(In(b), i, anOk), b)

DeleteStream(b) ==
  /\ stream.buffer # <<>> \/ stream.timeout # "none"
  /\ Commit(deleteStream(In(b)), b)

\* Time passes; a pending timeout fires no later than at its deadline.
ClientTick(b) ==
  /\ client.processingTimeout = "pending" \/ client.transcriptionBuffer # <<>>
  /\ client.processingTimeout = "pending" => client.timerAge < SilenceTicks
  /\ Commit(clientTick(In(b)), b)

StartStreaming(b) ==
  \E urlOk \in BOOLEAN :
    /\ streamer.starts < MaxStarts
    /\ Commit(startStreaming(In(b), urlOk), b)

StartConnect(b) ==
  \E reachable \in BOOLEAN, throws \in BOOLEAN :
    /\ streamer.starts > 0
    /\ Commit(startConnect(In(b), reachable, throws), b)

WsOpen(b) ==
  \E i \in SocketIds :
    /\ streamer.ws[i] = "connecting"
    /\ Commit(wsOnOpen(In(b), i), b)

\* The error event of a socket that has not closed yet: it may be connecting,
\* open, or closing after stopStreaming called close() on it.
WsError(b) ==
  \E i \in SocketIds :
    /\ streamer.ws[i] \in {"connecting", "open", "closing"}
    /\ Commit(wsOnError(In(b), i), b)

WsClose(b) ==
  \E i \in SocketIds, wasClean \in BOOLEAN :
    /\ streamer.ws[i] \in {"connecting", "open", "failed", "closing"}
    /\ streamer.ws[i] = "failed" => ~wasClean
    /\ Commit(wsOnClose(In(b), i, wasClean), b)

StopStreaming(b) ==
  /\ streamer.websocketRef \in {0} \cup SocketIds
  /\ Commit(stopCall(In(b)), b)

SendAudio(b) ==
  \E throws \in BOOLEAN :
    /\ streamer.websocketRef # 0
    /\ Commit(sendAudio(In(b), throws), b)

\* calculateSimilarity keeps no state between calls: a behaviour makes one call.
CalculateSimilarity(b) ==
  \E str1 \in Strings, str2 \in Strings :
    /\ ev.op = "none"
    /\ Len(str1) <= MaxStrLen /\ Len(str2) <= MaxStrLen
    /\ Commit(similarityCall(In(b), str1, str2), b)

ProcCreated(b) ==
  \E i \in 1..Len(client.procs), crOk \in BOOLEAN :
    /\ client.procs[i].pc = "create"
    /\ Commit(procCreated(In(b), i, crOk), b)

ProcAnalyzed(b) ==
  \E i \in 1..Len(client.procs), anOk \in BOOLEAN :
    /\ client.procs[i].pc = "analyze"
    /\ Commit(procAnalyzed(In(b), i, anOk), b)

\* The reconnect budget of one session: failures, retries, the health sweep
\* and the transcript buffer that is flushed on termination; one call at a time.
NextBudget ==
  \E id \in {"A"} :
    \/ ProcessAudio(id, Serial)
    \/ ConnectOpen(id, Serial)
    \/ ConnectFail(id, Serial)
    \/ BackoffDone(id, Serial)
    \/ RetryFire(id, Serial)
    \/ SocketDrop(id, Serial)
    \/ SocketClose(id, Serial)
    \/ HealthTick(Serial)
    \/ OnFinal(id, {<<"a">>}, {"0"}, Serial)
    \/ StoreDone(id, Serial)
    \/ StreamDone(id, Serial)

SpecBudget == Init /\ [][NextBudget]_vars

\* A session whose failures follow one another without a connection in
\* between, up to the end of its reconnect budget; one call at a time, and the
\* health sweep ticks between calls.
NextTerminal ==
  \/ \E id \in {"A"} :
        \/ FirstAudio(id, Counting)
        \/ ConnectOpen(id, Counting)
        \/ ConnectFail(id, Counting)
        \/ BackoffDone(id, Counting)
        \/ RetryFire(id, Counting)
        \/ RegisteredDrop(id, Counting)
        \/ SocketClose(id, Counting)
        \/ OnFinal(id, {<<"a">>}, {"0"}, Counting)
        \/ StoreDone(id, Counting)
        \/ StreamDone(id, Counting)
  \/ HealthTickBetweenCalls(Counting)

SpecTerminal == Init /\ [][NextTerminal]_vars

\* Overlapping calls of one session with a few faults.
NextConn ==
  \E id \in {"A"} :
    \/ ProcessAudio(id, Racing)
    \/ ConnectOpen(id, Racing)
    \/ ConnectFail(id, Racing)
    \/ BackoffDone(id, Racing)
    \/ RetryFire(id, Racing)
    \/ SocketError(id, Racing)
    \/ SocketDrop(id, Racing)
    \/ SocketClose(id, Racing)
    \/ CleanupSession(id, Racing)
    \/ AutoCloseFire(id, Racing)

SpecConn == Init /\ [][NextConn]_vars

\* The transcript accumulator of one session, logged; the audio source calls
\* processAudio to connect and is then silent.
NextAcc ==
  \E id \in {"A"} :
    \/ FirstAudio(id, Logged)
    \/ ConnectOpen(id, Logged)
    \/ OnFinal(id, Words, Speakers \cup {NoSpeaker}, Logged)
    \/ StoreDone(id, Logged)
    \/ StreamDone(id, Logged)

SpecAcc == Init /\ [][NextAcc]_vars

\* Explicit removal of a session that is transcribing.
NextRemove ==
  \E id \in {"A"} :
    \/ ProcessAudio(id, Logged)
    \/ ConnectOpen(id, Logged)
    \/ OnFinal(id, Words, {"0"}, Logged)
    \/ StoreDone(id, Logged)
    \/ StreamDone(id, Logged)
    \/ CleanupSession(id, Logged)

SpecRemove == Init /\ [][NextRemove]_vars

\* Flushing on inactivity, in the Deepgram service and in the audio server.
NextFlush ==
  \/ \E id \in {"A"} :
        \/ FirstAudio(id, Flushing)
        \/ ConnectOpen(id, Flushing)
        \/ OnFinal(id, {<<"a">>}, {"0"}, Flushing)
        \/ StoreDone(id, Flushing)
        \/ StreamDone(id, Flushing)
        \/ AutoCloseFire(id, Flushing)
  \/ AddOpusPacket(Flushing)
  \/ SegWritten(Flushing)
  \/ SegTranscribed(Flushing)
  \/ SilenceFire(Flushing)
  \/ ProcCreated(Flushing)
  \/ ProcAnalyzed(Flushing)
  \/ ClientClose(Flushing)

SpecFlush == Init /\ [][NextFlush]_vars

\* A session between audio, transcripts, interval ticks, the health sweep,
\* failures with their retries, explicit removal and the auto-close timeout.
NextIdle ==
  \E id \in {"A"} :
    \/ ProcessAudio(id, Timed)
    \/ ConnectOpen(id, Timed)
    \/ ConnectFail(id, Timed)
    \/ BackoffDone(id, Timed)
    \/ SocketError(id, Timed)
    \/ RegisteredDrop(id, Timed)
    \/ RetryFire(id, Timed)
    \/ SocketClose(id, Timed)
    \/ CleanupSession(id, Timed)
    \/ HealthTick(Timed)
    \/ KeepAliveTick(id, Timed)
    \/ HeartbeatTick(id, Timed)
    \/ AutoCloseFire(id, Timed)
    \/ OnFinal(id, {<<"a">>}, {"0"}, Timed)
    \/ OnInterim(id, Timed)
    \/ OnProviderError(id, Timed)
    \/ StoreDone(id, Timed)
    \/ StreamDone(id, Timed)

SpecIdle == Init /\ [][NextIdle]_vars

\* Audio that never pauses for 30 s, while the connection fails and is
\* re-established, the health sweep ticks, the session is removed explicitly
\* and transcripts arrive.
NextAudio ==
  \E id \in {"A"} :
    \/ ProcessAudio(id, Timed)
    \/ ConnectOpen(id, Timed)
    \/ ConnectFail(id, Timed)
    \/ BackoffDone(id, Timed)
    \/ RetryFire(id, Timed)
    \/ SocketError(id, Timed)
    \/ SocketDrop(id, Timed)
    \/ SocketClose(id, Timed)
    \/ HealthTick(Timed)
    \/ CleanupSession(id, Timed)
    \/ OnInterim(id, Timed)
    \/ AutoCloseFireInAudio(id, Timed)

SpecAudio == Init /\ [][NextAudio]_vars

\* Sessions that go stale and the periodic health sweep.
NextHealth ==
  \/ \E id \in {"A"} :
        \/ ProcessAudio(id, Racing)
        \/ ConnectOpen(id, Racing)
        \/ ConnectFail(id, Racing)
        \/ BackoffDone(id, Racing)
        \/ RetryFire(id, Racing)
        \/ SocketError(id, Racing)
        \/ SocketClose(id, Racing)
        \/ CleanupSession(id, Racing)
        \/ Age(id, Racing)
  \/ HealthTick(Racing)

SpecHealth == Init /\ [][NextHealth]_vars

\* Numbered audio payloads on a connection that is being established or
\* re-established.
NextOrder ==
  \E id \in {"A"} :
    \/ ProcessAudio(id, Numbered)
    \/ ConnectOpen(id, Numbered)
    \/ ConnectFail(id, Numbered)
    \/ BackoffDone(id, Numbered)
    \/ RetryFire(id, Numbered)
    \/ SocketDrop(id, Numbered)
    \/ SocketClose(id, Numbered)

SpecOrder == Init /\ [][NextOrder]_vars

\* One client of the audio server: packets, segments and the silence timeout.
NextClient ==
  \/ AddOpusPacket(Serial)
  \/ SegWritten(Serial)
  \/ SegTranscribed(Serial)
  \/ SilenceFire(Serial)
  \/ ProcCreated(Serial)
  \/ ProcAnalyzed(Serial)
  \/ ClientClose(Serial)

SpecClient == Init /\ [][NextClient]_vars

\* The audio server's client with the passing of time.
NextDwell ==
  \/ AddOpusPacket(Timed)
  \/ SegWritten(Timed)
  \/ SegTranscribed(Timed)
  \/ SilenceFire(Timed)
  \/ ProcCreated(Timed)
  \/ ProcAnalyzed(Timed)
  \/ ClientTick(Timed)
  \/ ClientClose(Timed)

SpecDwell == Init /\ [][NextDwell]_vars

\* One session of the text stream route.
NextStream ==
  \/ PostFragment(Serial)
  \/ StreamTimeoutFire(Serial)
  \/ StrayTimeoutFire(Serial)
  \/ ProcessNow(Serial)
  \/ StreamRunDone(Serial)
  \/ DeleteStream(Serial)

SpecStream == Init /\ [][NextStream]_vars

\* The segmenter of the audio server with overlapping flushSegment calls.
NextSegments ==
  \/ AddOpusPacket(Segmenting)
  \/ SegWritten(Segmenting)
  \/ SegTranscribed(Segmenting)
  \/ ClientClose(Segmenting)

SpecSegments == Init /\ [][NextSegments]_vars

\* The duplicate window of one client, fed with transcripts.
NextWindow ==
  \/ AddOpusPacket(Windowing)
  \/ SegWritten(Windowing)
  \/ OfferTranscript(Windowing)

SpecWindow == Init /\ [][NextWindow]_vars

\* The audio streamer hook of the mobile app: start and stop calls by the
\* component, and the events of its WebSockets.
NextStreamer ==
  \/ StartStreaming(Serial)
  \/ StartConnect(Serial)
  \/ WsOpen(Serial)
  \/ WsError(Serial)
  \/ WsClose(Serial)
  \/ StopStreaming(Serial)
  \/ SendAudio(Serial)

SpecStreamer == Init /\ [][NextStreamer]_vars

\* The string comparison of utils/textUtils.js on all pairs of short strings.
NextSimilarity ==
  \/ CalculateSimilarity(Serial)

SpecSimilarity == Init /\ [][NextSimilarity]_vars

\* Two sessions side by side, one call in flight at a time: both connect,
\* receive audio and transcripts and complete their flushes; session A also
\* fails, reconnects, has its auto-close timeout fire and is torn down.
NextFrame ==
  \/ \E id \in Sessions :
        \/ ProcessAudio(id, Paired)
        \/ ConnectOpen(id, Paired)
        \/ OnFinal(id, {<<"a">>}, {"0"}, Paired)
        \/ StoreDone(id, Paired)
        \/ StreamDone(id, Paired)
  \/ \E id \in {"A"} :
        \/ ConnectFail(id, Paired)
        \/ BackoffDone(id, Paired)
        \/ SocketError(id, Paired)
        \/ UnregisteredClose(id, Paired)
        \/ AutoCloseFire(id, Paired)
        \/ CleanupSession(id, Paired)

SpecFrame == Init /\ [][NextFrame]_vars

\* Final fragments before and after a reconnect.
NextRecon ==
  \E id \in {"A"} :
    \/ FirstAudio(id, Recon)
    \/ ConnectOpen(id, Recon)
    \/ ConnectFail(id, Recon)
    \/ BackoffDone(id, Recon)
    \/ RetryFire(id, Recon)
    \/ SocketError(id, Recon)
    \/ SocketClose(id, Recon)
    \/ OnFinal(id, Words, Speakers, Recon)
    \/ StoreDone(id, Recon)
    \/ StreamDone(id, Recon)

SpecRecon == Init /\ [][NextRecon]_vars

\* ------------------------------------------------------------------ claims
Attempts(id) ==
  IF connectionStatus[id] = 0 THEN 0
  ELSE statusObjs[connectionStatus[id]].reconnectAttempts

NoTimers(id) ==
  keepAliveIntervals[id] = 0 /\ heartbeatIntervals[id] = 0 /\ autoCloseTimeouts[id] = 0

\* C1: the entry of handleConnectionFailure that is the
\* (MAX_RECONNECT_ATTEMPTS+1)-th in a row with no connection established in
\* between terminates the session: its entries are gone from activeConnections
\* and connectionStatus, no retry of handleConnectionFailure is scheduled, and
\* exactly one flush call has fired, with whatever text was buffered.
C1_TerminatedAfterBudget ==
  \A id \in Sessions :
     (/\ ev.op = "hcf" /\ ev.sid = id
      /\ ev.failures = MAX_RECONNECT_ATTEMPTS + 1)
       => /\ activeConnections[id] = "none" /\ connectionStatus[id] = 0
          /\ retryTimers[id] = 0
          /\ ev.flushCalls = 1

\* C2: a reconnect that finishes after the session was explicitly closed
\* (cleanupSession, closeConnection) leaves the session absent from
\* activeConnections and connectionStatus and without timers.
C2_CloseWins ==
  \A id \in Sessions :
     (ended[id] = "closed" /\ ev.op = "hcfConnected" /\ ev.sid = id) =>
        /\ activeConnections[id] = "none" /\ connectionStatus[id] = 0
        /\ NoTimers(id)

\* Provider sockets of a session that are connecting or open.
LiveSockets(id) ==
  (IF activeConnections[id] = "open" THEN 1 ELSE 0) + orphans[id].open
    + Cardinality({t \in tasks : t.sid = id /\ t.pc = "connect"})

\* C3: a session never has more than one live (connecting or open) provider
\* socket, and a socket replaced in activeConnections was terminated or closed
\* before.
C3_OneLiveSocket ==
  \A id \in Sessions :
     /\ LiveSockets(id) <= 1
     /\ (ev.op \in {"paConnected", "hcfConnected"} /\ ev.sid = id)
           => ev.replacedSt # "open"

\* C4: a processAudio call that needs a connection never calls
\* createDeepgramConnection while another processAudio call of the same session
\* is still awaiting its createDeepgramConnection.
C4_SingleCreate ==
  ev.op = "paConnect" => ev.others = 0

\* C5: the retry of a payload whose send failed goes to the connection the
\* reconnect has just established, never to a socket that is not open.
C5_RetryOnNewConnection ==
  snd.kind = "retry" => (snd.viaNew \/ snd.st = "open")

\* C6: after handleConnectionFailure took its maximum-attempts-exceeded branch
\* for a session, and until the next processAudio call for it, no
\* handleConnectionFailure call opens a provider connection for the session.
C6_ExceededIsTerminal ==
  \A id \in Sessions :
     ended[id] = "exceeded" => ~(ev.op \in {"hcfCreate", "hcfConnected"} /\ ev.sid = id)

\* C7: cleanupSession hands a non-empty buffer to processBufferedTranscription
\* before it removes the buffer entry, and leaves no registered socket.
C7_CleanupFlushes ==
  ev.op = "cleanup" =>
     /\ activeConnections[ev.sid] = "none"
     /\ ev.text # <<>> =>
          \E i \in 1..Len(flushes) : flushes[i].sid = ev.sid /\ flushes[i].text = ev.text

RECURSIVE Flatten(_)
Flatten(texts) == IF texts = <<>> THEN <<>> ELSE Head(texts) \o Flatten(Tail(texts))

IsWord(tok) == <<tok>> \in Words

\* The fragments in a sequence of flushed texts, in order.
FlushedWords(texts) == SelectSeq(Flatten(texts), IsWord)

Occurrences(q, x) == Cardinality({i \in 1..Len(q) : q[i] = x})

Distinct(q) == \A i, j \in 1..Len(q) : i # j => q[i] # q[j]

AcceptedTexts == [i \in 1..Len(accepted) |-> accepted[i].text[1]]

\* C8: with no duplicates among the fragments delivered, the flushed texts
\* hold each delivered fragment no more than once (and, when everything
\* delivered has been flushed, exactly the delivered fragments in order).
C8_FlushedIsConcatenation ==
  Distinct(AcceptedTexts) =>
     /\ \A w \in Words : Occurrences(FlushedWords(stored), w[1]) <= 1
     /\ Len(FlushedWords(stored)) = Len(accepted) => FlushedWords(stored) = AcceptedTexts

\* C9: a final fragment equal to the one delivered just before it (similarity
\* 1) is discarded: the buffer is left as it was.
C9_DuplicateDiscarded ==
  (ev.op = "final" /\ ev.lastText = ev.text) =>
     transcriptionBuffers[ev.sid] = ev.before

\* C10 (as the code has it): a fragment that finds no buffer entry (the first
\* one, or the first after a flush removed the entry) starts the buffer, after
\* its speaker's label if it has a speaker, with no separator; a fragment that
\* finds buffered text is appended after a turn break and its speaker's label
\* if its speaker is known and differs from the last-known one, and after a
\* single space with no label otherwise.
C10_SpeakerTurns ==
  ev.op = "final" =>
     LET buf == transcriptionBuffers[ev.sid]
     IN IF ev.before = <<>>
        THEN IF ev.speaker # NoSpeaker
             THEN buf = <<"Speaker ", ev.speaker, ": ">> \o ev.text
             ELSE buf = ev.text
        ELSE IF ev.speaker # NoSpeaker /\ ev.speaker # ev.lastSpeaker
             THEN buf = ev.before \o <<"\n\n", "Speaker ", ev.speaker, ": ">> \o ev.text
             ELSE buf = ev.before \o <<" ">> \o ev.text

\* A fragment of speaker 1 arrives while text of speaker 0 is buffered.
C10_Witness ==
  /\ ev.op = "final" /\ ev.before # <<>>
  /\ ev.lastSpeaker = "0" /\ ev.speaker = "1"
  /\ transcriptionBuffers[ev.sid] =
        ev.before \o <<"\n\n", "Speaker ", "1", ": ">> \o ev.text

\* C10 as stated: whenever a speaker is known for the session, a fragment of
\* another speaker is appended after a turn break and the label, and a
\* fragment of the same speaker after a single space with no label.
C10_Original ==
  (ev.op = "final" /\ ev.lastSpeaker # NoSpeaker /\ ev.speaker # NoSpeaker) =>
     LET buf == transcriptionBuffers[ev.sid]
     IN IF ev.speaker # ev.lastSpeaker
        THEN buf = ev.before \o <<"\n\n", "Speaker ", ev.speaker, ": ">> \o ev.text
        ELSE buf = ev.before \o <<" ">> \o ev.text

\* C11: flushing a session whose buffer is empty or absent makes no
\* downstream call: when the auto-close timeout fires for a session without
\* buffered text no flush starts and nothing is stored, and when the silence
\* timeout of a client fires with an empty transcription buffer no
\* createTranscription call is made and no processing starts.
C11_EmptyFlushSkipped ==
  [][ /\ (ev'.op = "autoClose" /\ transcriptionBuffers[ev'.sid] = <<>>)
           => (flushes' = flushes /\ stored' = stored
               /\ transcriptionBuffers' = transcriptionBuffers)
      /\ (ev'.op = "silence" /\ client.transcriptionBuffer = <<>>)
           => (client'.created = client.created /\ client'.procs = client.procs
               /\ client'.transcriptionBuffer = <<>>) ]_vars

C11_Witness ==
  /\ ev.op = "autoClose" /\ ev.text = <<>> /\ flushes = <<>>
  /\ client.processingTimeout = "fired" /\ client.created = <<>>

\* C12: a flush always succeeds locally: once the flush of a non-empty buffer
\* has run, the session's buffer is empty even when storing the text failed,
\* so the text that failed is not kept for a later flush.
C12_FlushAlwaysEmpties ==
  ev.op = "storeFailed" => transcriptionBuffers[ev.sid] = <<>>

\* C13: a session with continuous audio never auto-closes: the auto-close
\* timeout never fires for a session for which processAudio has been called
\* since the timeout was last armed.
C13_ContinuousAudioNeverCloses ==
  ev.op = "autoClose" => ~ev.audioSince

C14_EveryPacketResets ==
  ev'.op \in {"pa", "paConnected", "paFailed"}
     => autoCloseTimeouts'[ev'.sid] # 0 /\ ~audioSinceArm'[ev'.sid]

\* C14 as stated, second part: the expiry sends a close frame, removes the
\* session from activeConnections and connectionStatus and cancels its timers.
C14_ExpiryClosesGracefully ==
  ev'.op = "autoClose"
     => /\ ev'.ws = "open"
        /\ activeConnections'[ev'.sid] = "none" /\ connectionStatus'[ev'.sid] = 0
        /\ keepAliveIntervals'[ev'.sid] = 0 /\ heartbeatIntervals'[ev'.sid] = 0
        /\ autoCloseTimeouts'[ev'.sid] = 0

C15_StaleSwept ==
  ev.op = "sweep" => \A id \in ev.stale : /\ activeConnections[id] = "none"
                                          /\ connectionStatus[id] = 0
                                          /\ NoTimers(id)

\* C16: within one session audio payloads are forwarded to the provider in
\* the order processAudio received them: a payload sent on an OPEN socket is
\* later in receipt order than every payload forwarded before it.
C16_ForwardedInOrder ==
  (snd.kind \in {"first", "retry"} /\ snd.st = "open") => snd.p > snd.after

\* C17: handling an interim transcript leaves the session's buffered text and
\* its last-known speaker as they were (and starts no flush).
C17_InterimLeavesBuffer ==
  [][ ev'.op = "interim" => /\ transcriptionBuffers' = transcriptionBuffers
                            /\ currentSpeakers' = currentSpeakers
                            /\ flushes' = flushes ]_vars

C17_Witness ==
  /\ ev.op = "interim" /\ ev.speaker = "1"
  /\ transcriptionBuffers[ev.sid] # <<>> /\ currentSpeakers[ev.sid] = "0"

\* C18: a provider message that carries an "error" field is only logged: it
\* starts no handleConnectionFailure, counts no reconnect attempt, closes no
\* socket, and leaves the session's connection state, buffer and timers as
\* they were.
C18_ProviderErrorOnlyLogged ==
  [][ ev'.op = "providerError"
        => UNCHANGED <<activeConnections, connectionStatus, statusObjs, orphans, tasks,
                       retryTimers, keepAliveIntervals, heartbeatIntervals,
                       autoCloseTimeouts, healthCheckInterval, transcriptionBuffers,
                       currentSpeakers, flushes, ended>> ]_vars

C18_Witness ==
  /\ ev.op = "providerError" /\ activeConnections[ev.sid] = "open"
  /\ transcriptionBuffers[ev.sid] # <<>> /\ autoCloseTimeouts[ev.sid] # 0
  /\ connectionStatus[ev.sid] # 0
  /\ statusObjs[connectionStatus[ev.sid]].reconnectAttempts = 1

\* C19: a packet that fails to decode is dropped and leaves the client's
\* state (frames, sample count, segment index, transcription buffer, pending
\* silence timeout, calls in flight) as it was; a packet that decodes is
\* accumulated: one more frame, its samples added to the running count or a
\* segment flush started, and the silence timeout pending.
C19_DecodeFailureDrops ==
  [][ /\ (ev'.op = "packet" /\ ~ev'.decoded) => client' = client
      /\ (ev'.op = "packet" /\ ev'.decoded)
           => /\ client'.pcmFrames = client.pcmFrames + 1
              /\ client'.saveFrames = client.saveFrames + 1
              /\ client'.sampleCount > client.sampleCount
              /\ client'.processingTimeout = "pending"
              /\ client'.sampleCount >= TARGET_SAMPLES
                   => Len(client'.segs) = Len(client.segs) + 1 ]_vars

C19_Witness ==
  /\ ev.op = "packet" /\ ~ev.decoded
  /\ client.pcmFrames = 2 /\ client.sampleCount = 32000
  /\ client.segmentIndex = 1 /\ client.transcriptionBuffer # <<>>
  /\ client.processingTimeout = "pending"

\* C20: a reconnect within the budget preserves the transcript: no step of
\* handleConnectionFailure short of the exceeded budget changes the session's
\* buffered text or its last-known speaker, so the fragment that follows a
\* successful reconnect, if it finds buffered text of its own speaker, is
\* appended after a single space with no turn break and no label.
C20_ReconnectPreservesTranscript ==
  [][ /\ (\/ ev'.op = "hcf" /\ ~ev'.exceeded
          \/ ev'.op \in {"hcfCreate", "hcfConnected", "hcfFailed"})
           => UNCHANGED <<transcriptionBuffers, currentSpeakers>>
      /\ (/\ ev.op = "hcfConnected" /\ ev'.op = "final" /\ ev'.sid = ev.sid
          /\ ev'.before # <<>> /\ ev'.speaker = ev'.lastSpeaker)
           => transcriptionBuffers'[ev'.sid] = ev'.before \o <<" ">> \o ev'.text ]_vars

\* Two fragments of one speaker, the first accepted before the failure and
\* the second after the reconnect, in one buffer.
C20_Witness ==
  /\ ev.op = "final" /\ Len(accepted) = 2
  /\ accepted[1].att = 0 /\ accepted[2].att = 1
  /\ accepted[1].speaker = "0" /\ accepted[2].speaker = "0"
  /\ transcriptionBuffers[ev.sid] =
        <<"Speaker ", "0", ": ">> \o accepted[1].text \o <<" ">> \o accepted[2].text

\* C21: when the buffer is non-empty and no fragment has been accepted for
\* longer than the silence dwell, the buffer has been handed to
\* processBufferedTranscriptions since the last fragment, whatever packets
\* arrived meanwhile.
C21_DwellFlushes ==
  (client.transcriptionBuffer # <<>> /\ client.sinceFinal > SilenceTicks)
    => client.flushedSince

\* C22: once a session has been torn down (budget exhausted, closeConnection
\* or cleanupSession) and no flush of it is still running, none of the
\* per-session maps retains an entry for it.
C22_TeardownReleasesAll ==
  \A id \in Sessions :
     (/\ ended[id] # "no"
      /\ \A i \in 1..Len(flushes) : flushes[i].sid # id)
       => /\ activeConnections[id] = "none"
          /\ connectionStatus[id] = 0
          /\ NoTimers(id)
          /\ transcriptionBuffers[id] = <<>>
          /\ currentSpeakers[id] = NoSpeaker

\* C23: a timer that is set cancels the one recorded before it: each session
\* has at most one pending auto-close timeout, at most one pending keep-alive
\* interval and at most one pending heartbeat interval, and every pending
\* timer is the one its map records for the session.
C23_OneTimerPerPurpose ==
  \A id \in Sessions : \A k \in TimerKinds :
     LET pending == {t \in timerLog.pending : t.sid = id /\ t.kind = k}
         recorded == IF k = "keepAlive" THEN keepAliveIntervals[id]
                     ELSE IF k = "heartbeat" THEN heartbeatIntervals[id]
                     ELSE autoCloseTimeouts[id]
     IN /\ Cardinality(pending) <= 1
        /\ \A t \in pending : t.id = recorded

\* A connection is established while the three timers of the connection
\* before it are pending: each is set again, and afterwards exactly the three
\* new ones are pending.
C23_Witness ==
  /\ ev.op = "paConnected" /\ ev.sid = "A"
  /\ <<"A", "autoClose">> \in timerLog.superseded
  /\ <<"A", "keepAlive">> \in timerLog.superseded
  /\ <<"A", "heartbeat">> \in timerLog.superseded
  /\ autoCloseTimeouts["A"] # 0 /\ keepAliveIntervals["A"] # 0 /\ heartbeatIntervals["A"] # 0
  /\ Cardinality({t \in timerLog.pending : t.sid = "A"}) = 3

\* C24: in the text stream route every pending processing timeout of the
\* session is the one recorded in streamTimeouts, so at most one is pending,
\* also when a fragment is posted while a fired timeout is still processing.
C24_OneStreamTimeout == stream.stray = 0

\* C25: the close event of a socket that closeConnection or cleanupSession
\* closed with a close frame does not run handleConnectionFailure: no
\* reconnect is started, no attempt is counted and no map entry of the session
\* changes, also when the session has connected again meanwhile.
C25_GracefulCloseIsNoFailure ==
  [][ ev'.op = "gracefulClose"
        => /\ tasks' = tasks /\ retryTimers' = retryTimers
           /\ statusObjs' = statusObjs /\ connectionStatus' = connectionStatus
           /\ activeConnections' = activeConnections
           /\ keepAliveIntervals' = keepAliveIntervals
           /\ heartbeatIntervals' = heartbeatIntervals
           /\ autoCloseTimeouts' = autoCloseTimeouts
           /\ flushes' = flushes /\ ended' = ended ]_vars

\* The close event of a gracefully closed socket arrives after the session
\* has another socket registered.
C25_Witness ==
  /\ ev.op = "gracefulClose"
  /\ activeConnections[ev.sid] = "open"
  /\ connectionStatus[ev.sid] # 0

\* C26: a connection attempt that times out or fails its handshake, made by
\* processAudio or by handleConnectionFailure, is followed by a retry of the
\* session: a handleConnectionFailure call is scheduled or running, which
\* counts the failure and backs off or terminates.
C26_ConnectFailureRetries ==
  [][ ev'.op \in {"paFailed", "hcfFailed"}
        => \/ retryTimers'[ev'.sid] > retryTimers[ev'.sid]
           \/ \E t \in tasks' \ tasks : t.k = "hcf" /\ t.sid = ev'.sid
           \/ ended'[ev'.sid] = "exceeded" ]_vars

\* C27: the segments the segmenter has emitted carry distinct segment
\* indices, under any interleaving of addOpusPacket with flushSegment calls
\* that are still waiting.
C27_DistinctSegmentIndex ==
  \A i, j \in 1..Len(client.segs) :
     i < j => client.segs[i].index # client.segs[j].index

\* The last n entries of a sequence.
LastN(q, n) == IF Len(q) <= n THEN q ELSE SubSeq(q, Len(q) - n + 1, Len(q))

\* C28: recentTranscripts holds at most maxRecentTranscripts entries and is
\* the most recently accepted fragments in the order of acceptance; a
\* fragment more than 0.85 similar to the last accepted fragment or to an
\* entry of the window is discarded and leaves transcriptionBuffer,
\* lastTranscriptionAdded and recentTranscripts unchanged.
C28_RecentWindow ==
  [][ ev'.op = "offer"
        => /\ Len(client'.recentTranscripts) <= maxRecentTranscripts
           /\ client'.recentTranscripts = LastN(accepted', maxRecentTranscripts)
           /\ (\/ SimilarityAbove85(ev'.transcript, client.lastTranscriptionAdded)
                  /\ client.lastTranscriptionAdded # <<>>
               \/ \E i \in 1..Len(client.recentTranscripts) :
                     SimilarityAbove85(ev'.transcript, client.recentTranscripts[i]))
                => /\ client'.transcriptionBuffer = client.transcriptionBuffer
                   /\ client'.lastTranscriptionAdded = client.lastTranscriptionAdded
                   /\ client'.recentTranscripts = client.recentTranscripts
                   /\ accepted' = accepted ]_vars

\* The window is full, its oldest entry has been evicted, and a fragment
\* similar to an entry of the window has just been discarded.
C28_Witness ==
  /\ ev.op = "offer"
  /\ Len(accepted) > maxRecentTranscripts
  /\ Len(client.recentTranscripts) = maxRecentTranscripts
  /\ client.recentTranscripts[1] # accepted[1]
  /\ ev.before.recentTranscripts = client.recentTranscripts
  /\ ev.transcript = <<"A">>
  /\ \E i \in 1..Len(client.recentTranscripts) :
        client.recentTranscripts[i] = <<"a">>

\* Everything the service holds for one session.
SessionView(id) ==
  [ws |-> activeConnections[id],
   status |-> IF connectionStatus[id] = 0 THEN FreeStatus
              ELSE statusObjs[connectionStatus[id]],
   hasStatus |-> connectionStatus[id] # 0,
   orphans |-> orphans[id],
   keepAlive |-> keepAliveIntervals[id],
   heartbeat |-> heartbeatIntervals[id],
   autoClose |-> autoCloseTimeouts[id],
   timers |-> {t \in timerLog.pending : t.sid = id},
   retry |-> retryTimers[id],
   buffer |-> transcriptionBuffers[id],
   speaker |-> currentSpeakers[id],
   calls |-> {[k |-> t.k, pc |-> t.pc, n |-> t.n, p |-> t.p] : t \in {x \in tasks : x.sid = id}},
   flushes |-> SelectSeq(flushes, LAMBDA f : f.sid = id)]

\* C29: an operation of one session (processAudio, handleConnectionFailure,
\* closeConnection, cleanupSession, a timer of the session firing, an event of
\* its provider socket) leaves every per-session entry of any other session
\* unchanged: no step changes the entries of two sessions, and a step that
\* names its session changes no other's.
C29_OtherSessionsUntouched ==
  [][ /\ \A id \in Sessions :
           ("sid" \in DOMAIN ev' /\ ev'.sid # id) => SessionView(id)' = SessionView(id)
      /\ \A a, c \in Sessions :
           (a # c /\ SessionView(a)' # SessionView(a)) => SessionView(c)' = SessionView(c)
    ]_vars

\* The auto-close timeout of session A closes its open socket while session B
\* is connected, has timers pending, text buffered and a flush in flight.
C29_Witness ==
  /\ ev.op = "autoClose" /\ ev.sid = "A" /\ ev.ws = "open"
  /\ activeConnections["B"] = "open" /\ connectionStatus["B"] # 0
  /\ keepAliveIntervals["B"] # 0 /\ autoCloseTimeouts["B"] # 0
  /\ transcriptionBuffers["B"] # <<>>
  /\ \E i \in 1..Len(flushes) : flushes[i].sid = "B"

\* C30: the delay before reconnect attempt k never exceeds 10000 ms, is not
\* smaller than the delay before attempt k-1, and is greater than it as long
\* as that one was below 10000 ms.
C30_BackoffGrowsToCap ==
  (ev.op = "hcf" /\ ~ev.exceeded)
    => /\ ev.backoffTime <= 10000 * 2^BackoffShift
       /\ ev.backoffTime >= 1000 * 2^BackoffShift
       /\ ev.att > 1
            => /\ ev.backoffTime >= backoffTime(ev.att - 1)
               /\ backoffTime(ev.att - 1) < 10000 * 2^BackoffShift
                    => ev.backoffTime > backoffTime(ev.att - 1)

\* The last attempt of the budget waits the capped delay, as the one before.
C30_Witness ==
  /\ ev.op = "hcf" /\ ~ev.exceeded /\ ev.att = MAX_RECONNECT_ATTEMPTS
  /\ ev.backoffTime = 10000 * 2^BackoffShift
  /\ backoffTime(ev.att - 1) = ev.backoffTime
  /\ backoffTime(6) < ev.backoffTime

\* C31: for non-empty strings a and b, calculateSimilarity(a, b) is the Dice
\* coefficient 2*|B(a) /\ B(b)| / (|B(a)| + |B(b)|) of the bigram sets of the
\* lower-cased strings, where a one-character string is the one member of
\* its own set; the score lies between 0 and 1, is the same with the
\* arguments exchanged, and is 1 for strings equal up to case.
BigramSet(str) ==
  LET l == [i \in 1..Len(str) |-> IF str[i] = "A" THEN "a" ELSE str[i]]
  IN IF Len(l) = 1 THEN {l} ELSE {<<l[i], l[i + 1]>> : i \in 1..(Len(l) - 1)}

C31_DiceCoefficient ==
  (ev.op = "similarity" /\ ev.str1 # <<>> /\ ev.str2 # <<>>) =>
    LET Ba == BigramSet(ev.str1)
        Bb == BigramSet(ev.str2)
        swapped == calculateSimilarity(ev.str2, ev.str1)
    IN /\ ev.score.den > 0
       /\ ev.score.num * (Cardinality(Ba) + Cardinality(Bb))
            = 2 * Cardinality(Ba \cap Bb) * ev.score.den
       /\ 0 <= ev.score.num /\ ev.score.num <= ev.score.den
       /\ swapped.den > 0
       /\ ev.score.num * swapped.den = swapped.num * ev.score.den
       /\ (\A i \in 1..Len(ev.str1) :
              Len(ev.str1) = Len(ev.str2)
              /\ (ev.str1[i] = ev.str2[i] \/ {ev.str1[i], ev.str2[i]} = {"a", "A"}))
          => ev.score.num = ev.score.den

\* Two different strings that share some but not all bigrams, one of them
\* with a capital, and a comparison with a one-character string.
C31_Witness ==
  /\ ev.op = "similarity"
  /\ \/ /\ ev.str1 = <<"A", "b">> /\ ev.str2 = <<"a", "b", "b">>
        /\ ev.score.num * 3 = 2 * ev.score.den
     \/ /\ ev.str1 = <<"b">> /\ ev.str2 = <<"a", "b">>
        /\ ev.score.num = 0 /\ ev.score.den = 2

\* C32: only consecutive failures count toward the reconnect budget: a
\* successful reconnect in handleConnectionFailure leaves the session's
\* reconnectAttempts at 0, so a session that reconnects after each failure
\* is never terminated for exceeding MAX_RECONNECT_ATTEMPTS.
C32_ReconnectResetsAttempts ==
  [][\A id \in Sessions :
       (ev'.op = "hcfConnected" /\ ev'.sid = id /\ connectionStatus'[id] # 0) =>
          statusObjs'[connectionStatus'[id]].reconnectAttempts = 0]_vars

\* C33: at most one handleConnectionFailure call of a session is in its
\* backoff wait or awaiting createDeepgramConnection at any time, whatever
\* triggers the calls (error then close event, health sweep, scheduled
\* retry, failed send).
C33_OneReconnectInProgress ==
  \A id \in Sessions :
    Cardinality({t \in tasks : t.k = "hcf" /\ t.sid = id}) <= 1

\* C34: when a processAudio call that created a connection returns, the
\* session's connectionStatus entry records readyState OPEN and
\* reconnectAttempts 0, also when a non-open entry existed before the call.
C34_ConnectLeavesOpenStatus ==
  [][\A id \in Sessions :
       (ev'.op = "paConnected" /\ ev'.sid = id) =>
          /\ connectionStatus'[id] # 0
          /\ statusObjs'[connectionStatus'[id]].readyState = "OPEN"
          /\ statusObjs'[connectionStatus'[id]].reconnectAttempts = 0]_vars

\* C35: every final fragment accepted by bufferTranscription is handed to
\* storeTranscription in one flushed block only, also when a later fragment
\* arrives while the flush of an earlier one is still awaiting: no accepted
\* fragment is part of two stored blocks.
C35_OneBlockPerFragment ==
  Distinct(AcceptedTexts) =>
    \A k \in 1..Len(accepted) :
      Cardinality({i \in 1..Len(stored) :
                     \E j \in 1..Len(stored[i]) : stored[i][j] = AcceptedTexts[k]}) <= 1

\* C36: no buffered text is lost to a flush in flight: when a flush of the
\* audio server's transcript buffer, or of the text stream route's buffer,
\* completes and clears the buffer, the text it clears has been handed to
\* some flush (this one, an earlier one or one still awaiting).
C36_NoTextLostToFlush ==
  [][/\ (ev'.op = "procDone" /\ client.transcriptionBuffer # <<>>) =>
          \E k \in 1..Len(client.created) :
             client.created[k] = Join(client.transcriptionBuffer)
     /\ (ev'.op = "streamDone" /\ ev'.ok /\ stream.buffer # <<>>) =>
          \/ ev'.text = stream.buffer
          \/ \E k \in 1..Len(stream.runs') : stream.runs'[k].text = stream.buffer]_vars

\* The frames of a segment: saveFrames grows by one frame per packet and is
\* emptied only where segmentIndex is incremented, so a frame is known by
\* the segment index at its arrival and its position in saveFrames.
FramesOf(seg) == {<<seg.index, k>> : k \in 1..seg.frames}

\* C37: every PCM frame accumulated by addOpusPacket is part of one emitted
\* segment only: no two segments that have been archived hold a frame in
\* common, also when frames arrive while flushSegment is awaiting.
C37_FrameInOneSegment ==
  \A i, j \in 1..Len(client.segs) :
     (i < j /\ client.segs[i].pc = "transcribe" /\ client.segs[j].pc = "transcribe")
        => FramesOf(client.segs[i]) \cap FramesOf(client.segs[j]) = {}

\* C38: stop wins over a pending connect: from a stopStreaming call until
\* the next startStreaming call, isStreaming and isConnecting are false, no
\* WebSocket is held in websocketRef and none is open, also when the stop
\* came while a connection attempt had not yet opened.
C38_StopWins ==
  streamer.stopped =>
     /\ ~streamer.isStreaming /\ ~streamer.isConnecting
     /\ streamer.websocketRef = 0
     /\ \A i \in SocketIds : streamer.ws[i] # "open"

====
